---- MODULE Spec2Model ----
(***************************************************************************)
(* Model of the deqjs decompiler library (crates/deqjs_lib/src/lib.rs):    *)
(* the byte Reader, the atom tables of both dialects, the tagged value     *)
(* deserializer, the instruction decoder and the pseudo-source emitter.    *)
(*                                                                         *)
(* Representation.  Bytes are the integers 0..255.  A u32 is the set of    *)
(* its one-bits (a subset of 0..31) wherever the full width matters, an    *)
(* i64 likewise a subset of 0..63; bitwise OR is set union and a left      *)
(* shift moves every member up and drops the ones that leave the word.     *)
(* A Rust String is a TLA+ string.  Result<T, DeqjsError> is a record      *)
(* with the field ok; a result of a Reader operation also carries pos,     *)
(* the cursor after the operation.                                         *)
(***************************************************************************)
EXTENDS Integers, Sequences, FiniteSets, TLC

VARIABLES
    buf,        \* Reader.buf: the input byte slice
    pos,        \* Reader.pos: the cursor
    last,       \* the last operation applied and what it returned
    src,        \* where buf was drawn from (provenance of the input)
    tbl,        \* AtomTable {first_atom, idx_to_atom}
    tblV1,      \* AtomTableV1 {atoms}
    options,    \* DecompileOptions
    phase,      \* position inside decompile_with_options
    version,    \* the dialect decompile_with_options resolved
    value,      \* the top-level Value read
    funcs,      \* the FunctionBytecode list handed to decompile_functions_with
    result      \* what the entry point returned

vars == <<buf, pos, last, src, tbl, tblV1, options, phase, version, value, funcs, result>>

\* Call("f", <<x, y>>) is f(x, y): see the call table below
RECURSIVE Call(_, _)

\* ------------------------------------------------------------------------
\* Bounds of the model
\* ------------------------------------------------------------------------

\* sampled u32 / i32 values have at most MaxOnes one-bits or zero-bits
MaxOnes == 2
\* raw inputs hold at most MaxCont bytes with the continuation bit set
MaxCont == 11

\* ------------------------------------------------------------------------
\* Results and errors (enum DeqjsError)
\* ------------------------------------------------------------------------

None == [none |-> TRUE]
Some(v) == [some |-> v]

Eof == [e |-> "Eof"]
InvalidVersion(b) == [e |-> "InvalidVersion", n |-> b]
UnsupportedTag(t) == [e |-> "UnsupportedTag", n |-> t]
InvalidSleb128 == [e |-> "InvalidSleb128"]
InvalidOpcode(op) == [e |-> "InvalidOpcode", n |-> op]
TruncatedOpcode(p, size, remaining) ==
    [e |-> "TruncatedOpcode", pc |-> p, size |-> size, remaining |-> remaining]
InvalidAtomIndex(i) == [e |-> "InvalidAtomIndex", n |-> i]

\* Ok / Err of a Reader operation, with the cursor it leaves behind
ROk(v, p) == [ok |-> TRUE, v |-> v, pos |-> p]
RErr(e, p) == [ok |-> FALSE, err |-> e, pos |-> p]

\* Ok / Err of an operation that does not move a cursor
Ok(v) == [ok |-> TRUE, v |-> v]
Err(e) == [ok |-> FALSE, err |-> e]

\* ------------------------------------------------------------------------
\* Machine words as bit sets
\* ------------------------------------------------------------------------

Pow2(n) == 2 ^ n

\* the one-bits of a byte
BitsOf(b) == {i \in 0..7 : (b \div Pow2(i)) % 2 = 1}

\* x << shift in a word of w bits
Shl(bits, shift, w) == {i + shift : i \in bits} \cap (0..(w - 1))

\* the number a bit set denotes (defined below 2^31)
RECURSIVE ToNat(_)
ToNat(bits) ==
    IF bits = {} THEN 0
    ELSE LET i == CHOOSE j \in bits : TRUE IN Pow2(i) + Call("ToNat", <<bits \ {i}>>)

\* the one-bits of a natural number below 2^31
NatBits(n) == {i \in 0..30 : (n \div Pow2(i)) % 2 = 1}

\* an i32 bit pattern as a signed integer
I32ToInt(bits) ==
    IF 31 \in bits THEN (Call("ToNat", <<bits \ {31}>>) - 2147483647) - 1 ELSE Call("ToNat", <<bits>>)

\* ------------------------------------------------------------------------
\* Reader
\* ------------------------------------------------------------------------

remaining(b, p) == IF Len(b) >= p THEN Len(b) - p ELSE 0

peek_u8(b, p) == IF p < Len(b) THEN Ok(b[p + 1]) ELSE None

get_u8(b, p) ==
    IF remaining(b, p) < 1 THEN RErr(Eof, p) ELSE ROk(b[p + 1], p + 1)

\* little-endian u16
get_u16(b, p) ==
    IF remaining(b, p) < 2 THEN RErr(Eof, p)
    ELSE ROk(b[p + 1] + 256 * b[p + 2], p + 2)

\* little-endian u32, as the sequence of its four bytes' bits
get_u32(b, p) ==
    IF remaining(b, p) < 4 THEN RErr(Eof, p)
    ELSE ROk(UNION {Shl(BitsOf(b[p + 1 + k]), 8 * k, 32) : k \in 0..3}, p + 4)

\* u64 and f64: eight raw bytes, kept as read
get_u64(b, p) ==
    IF remaining(b, p) < 8 THEN RErr(Eof, p) ELSE ROk(SubSeq(b, p + 1, p + 8), p + 8)

get_f64(b, p) ==
    IF remaining(b, p) < 8 THEN RErr(Eof, p) ELSE ROk(SubSeq(b, p + 1, p + 8), p + 8)

get_bytes(b, p, n) ==
    IF remaining(b, p) < n THEN RErr(Eof, p) ELSE ROk(SubSeq(b, p + 1, p + n), p + n)

\* get_leb128_u32 without the mask b & 0x7f: the continuation bit leaks
\* into the value
RECURSIVE leb128_loop_nomask(_, _, _, _)
leb128_loop_nomask(b, p, res, shift) ==
    LET g == Call("get_u8", <<b, p>>) IN
    IF ~g.ok THEN g
    ELSE LET acc == res \cup Shl(BitsOf(g.v), shift, 32) IN
         IF g.v \div 128 = 0 THEN ROk(acc, g.pos)
         ELSE IF shift + 7 >= 32 THEN RErr(Eof, g.pos)
         ELSE leb128_loop_nomask(b, g.pos, acc, shift + 7)

\* the loop of get_leb128_u32; result is a u32 bit set
RECURSIVE leb128_loop(_, _, _, _)
leb128_loop(b, p, res, shift) ==
    LET g == Call("get_u8", <<b, p>>) IN
    IF ~g.ok THEN g
    ELSE LET acc == res \cup Shl(BitsOf(g.v % 128), shift, 32) IN
         IF g.v \div 128 = 0 THEN ROk(acc, g.pos)
         ELSE IF shift + 7 >= 32 THEN RErr(Eof, g.pos)
         ELSE leb128_loop(b, g.pos, acc, shift + 7)

get_leb128_u32(b, p) == leb128_loop(b, p, {}, 0)

\* the loop of get_sleb128_i32; res is an i64 bit set.  Yields the byte
\* that ended the loop and the shift after it.
RECURSIVE sleb128_loop(_, _, _, _)
sleb128_loop(b, p, res, shift) ==
    LET g == Call("get_u8", <<b, p>>) IN
    IF ~g.ok THEN g
    ELSE LET acc == res \cup Shl(BitsOf(g.v % 128), shift, 64)
             sh == shift + 7 IN
         IF g.v \div 128 = 0 THEN ROk([result |-> acc, shift |-> sh, byte |-> g.v], g.pos)
         ELSE IF sh >= 64 THEN RErr(InvalidSleb128, g.pos)
         ELSE Call("sleb128_loop", <<b, g.pos, acc, sh>>)

\* get_sleb128_i32 without the sign extension
get_sleb128_i32_nosign(b, p) ==
    LET l == Call("sleb128_loop", <<b, p, {}, 0>>) IN
    IF ~l.ok THEN l ELSE ROk(l.v.result \cap (0..31), l.pos)

\* result is the i32 bit pattern (result as i32 keeps the low 32 bits)
get_sleb128_i32(b, p) ==
    LET l == Call("sleb128_loop", <<b, p, {}, 0>>) IN
    IF ~l.ok THEN l
    ELSE LET ext == IF l.v.shift < 64 /\ (l.v.byte \div 64) % 2 = 1
                    THEN l.v.result \cup (l.v.shift..63)
                    ELSE l.v.result IN
         ROk(ext \cap (0..31), l.pos)

\* ------------------------------------------------------------------------
\* Inputs of the Reader specification
\* ------------------------------------------------------------------------

\* the sets of at most k bit positions of a 32-bit word
RECURSIVE SmallSets(_)
SmallSets(k) ==
    IF k = 0 THEN {{}}
    ELSE LET s == SmallSets(k - 1) IN s \cup {S \cup {i} : S \in s, i \in 0..31}

\* sampled 32-bit patterns: few one-bits, or few zero-bits.  They include
\* 0, 1, 2^31 (i32::MIN), 2^31 - 1 (i32::MAX) and 2^32 - 1 (-1 as i32).
Samples32 == SmallSets(MaxOnes) \cup {(0..31) \ S : S \in SmallSets(MaxOnes)}

\* bits 0..6 of a word as a byte
Low7(bits) == Call("ToNat", <<bits \cap (0..6)>>)

\* the canonical (shortest) unsigned LEB128 encoding of a u32
RECURSIVE ULeb128Enc(_)
ULeb128Enc(bits) ==
    LET rest == {i - 7 : i \in {j \in bits : j >= 7}} IN
    IF rest = {} THEN <<Low7(bits)>>
    ELSE <<Low7(bits) + 128>> \o ULeb128Enc(rest)

\* the canonical (shortest) signed LEB128 encoding of an i32
RECURSIVE SLeb128Enc(_)
SLeb128Enc(bits) ==
    LET rest == {i - 7 : i \in {j \in bits : j >= 7}}
                \cup (IF 31 \in bits THEN 25..31 ELSE {})
        done == \/ rest = {} /\ 6 \notin bits
                \/ rest = 0..31 /\ 6 \in bits IN
    IF done THEN <<Low7(bits)>>
    ELSE <<Low7(bits) + 128>> \o SLeb128Enc(rest)

Rep(x, n) == [i \in 1..n |-> x]

\* runs of continuation bytes, ended by nothing or by one final byte
RawInputs ==
    {Rep(c, k) \o t : c \in {128, 255}, k \in 0..MaxCont,
                      t \in {<<>>, <<0>>, <<64>>, <<127>>}}

ReaderInputs ==
    {[kind |-> "uleb", v |-> S, bytes |-> ULeb128Enc(S)] : S \in Samples32}
    \cup {[kind |-> "sleb", v |-> S, bytes |-> SLeb128Enc(S)] : S \in Samples32}
    \cup {[kind |-> "raw", v |-> {}, bytes |-> r] : r \in RawInputs}

\* ------------------------------------------------------------------------
\* Values of the variables a specification does not use
\* ------------------------------------------------------------------------

NoTable == [first_atom |-> 0, idx_to_atom |-> <<>>]
NoTableV1 == [atoms |-> <<>>]
NoOptions == [mode |-> "Pseudo", version |-> "Auto", deobfuscate |-> FALSE, optimize |-> FALSE]

DecompileIdle ==
    /\ options = NoOptions
    /\ phase = "idle"
    /\ version = "Auto"
    /\ value = None
    /\ funcs = <<>>
    /\ result = None

TablesIdle ==
    /\ tbl = NoTable
    /\ tblV1 = NoTableV1

\* ------------------------------------------------------------------------
\* Specification of the Reader: a cursor over one input, read by any
\* sequence of get_u8 / get_leb128_u32 / get_sleb128_i32 calls
\* ------------------------------------------------------------------------

InitReader ==
    /\ \E inp \in ReaderInputs :
          /\ buf = inp.bytes
          /\ src = [kind |-> inp.kind, v |-> inp.v]
    /\ pos = 0
    /\ last = [op |-> "none", start |-> 0, res |-> None]
    /\ TablesIdle
    /\ DecompileIdle

ReaderFrame == UNCHANGED <<buf, src, tbl, tblV1, options, phase, version, value, funcs, result>>

GetU8 ==
    /\ pos' = Call("get_u8", <<buf, pos>>).pos
    /\ last' = [op |-> "get_u8", start |-> pos, res |-> Call("get_u8", <<buf, pos>>)]
    /\ ReaderFrame

GetLeb128U32 ==
    /\ pos' = Call("get_leb128_u32", <<buf, pos>>).pos
    /\ last' = [op |-> "get_leb128_u32", start |-> pos, res |-> Call("get_leb128_u32", <<buf, pos>>)]
    /\ ReaderFrame

GetSleb128I32 ==
    /\ pos' = get_sleb128_i32(buf, pos).pos
    /\ last' = [op |-> "get_sleb128_i32", start |-> pos, res |-> get_sleb128_i32(buf, pos)]
    /\ ReaderFrame

NextReader == GetU8 \/ GetLeb128U32 \/ GetSleb128I32

SpecReader == InitReader /\ [][NextReader]_vars

\* ------------------------------------------------------------------------
\* Claims about the Reader
\* ------------------------------------------------------------------------

\* the first n bytes of buf all have the continuation bit set
ContPrefix(n) == Len(buf) >= n /\ \A i \in 1..n : buf[i] >= 128

\* C6: get_leb128_u32 decodes the canonical LEB128 encoding of every u32 v
\* to v, leaving the cursor right after the encoding, and fails with Eof
\* whenever the continuation bit is still set on the fifth byte.
C6_Leb128RoundTrip ==
    (last.op = "get_leb128_u32" /\ last.start = 0) =>
        /\ src.kind = "uleb" =>
              /\ last.res.ok
              /\ last.res.v = src.v
              /\ pos = Len(buf)
        /\ ContPrefix(5) => (~last.res.ok /\ last.res.err = Eof)

\* a five-byte canonical encoding (a value of 2^28 or more) has been decoded
C6_Witness ==
    /\ last.op = "get_leb128_u32" /\ last.start = 0
    /\ src.kind = "uleb" /\ 31 \in src.v /\ Len(buf) = 5
    /\ last.res.ok

\* a run of five continuation bytes has been rejected
C6_WitnessOverlong ==
    /\ last.op = "get_leb128_u32" /\ last.start = 0
    /\ ContPrefix(5) /\ ~last.res.ok

\* C7: get_sleb128_i32 decodes the canonical SLEB128 encoding of every
\* i32 v (negative, zero, positive, i32::MIN, i32::MAX) to exactly v.
C7_Sleb128RoundTrip ==
    (last.op = "get_sleb128_i32" /\ last.start = 0 /\ src.kind = "sleb") =>
        /\ last.res.ok
        /\ last.res.v = src.v
        /\ pos = Len(buf)

\* i32::MIN has been decoded from its five-byte canonical encoding
C7_Witness ==
    /\ last.op = "get_sleb128_i32" /\ last.start = 0
    /\ src.kind = "sleb" /\ src.v = {31} /\ Len(buf) = 5
    /\ last.res.ok /\ I32ToInt(last.res.v) = (0 - 2147483647) - 1

\* buf starts with an encoding of n bytes: n - 1 continuation bytes and
\* one final byte
EncodingOfLen(n) == ContPrefix(n - 1) /\ Len(buf) >= n /\ buf[n] < 128

\* C8: get_sleb128_i32 fails with InvalidSleb128 on every overlong
\* encoding, that is every encoding of six or more bytes.
C8_OverlongRejected ==
    (last.op = "get_sleb128_i32" /\ last.start = 0
        /\ \E n \in 6..(MaxCont + 1) : EncodingOfLen(n)) =>
        (~last.res.ok /\ last.res.err = InvalidSleb128)

\* ------------------------------------------------------------------------
\* Atoms (enum AtomRepr) and the atom tables of the two dialects
\* ------------------------------------------------------------------------

AtomNull == [t |-> "Null"]
AtomBuiltin(id) == [t |-> "Builtin", id |-> id]
AtomString(s) == [t |-> "String", s |-> s]
AtomSymbol(typ, desc) == [t |-> "Symbol", typ |-> typ, desc |-> desc]
AtomTaggedInt(v) == [t |-> "TaggedInt", v |-> v]
AtomRaw(v) == [t |-> "Raw", v |-> v]

\* length of the generated table BUILTIN_ATOMS.  The table is produced at
\* build time from the engine's atom header; the model keeps it short.
BuiltinAtomsLen == 3

builtin_end_atom_id == BuiltinAtomsLen + 1

\* v[i] of a Vec or slice: Rust panics when i is out of bounds
Panic == [ok |-> FALSE, err |-> [e |-> "panic: index out of bounds"]]
VecIndex(v, i) == IF i < Len(v) THEN Ok(v[i + 1]) ELSE Panic

\* a u32 bit set as a number (as usize); v >> 1 of a u32
U32(bits) == Call("ToNat", <<bits>>)
Shr1(bits) == {i - 1 : i \in bits \ {0}}

\* resolve_idx with the bound check off by one (off > len)
resolve_idx_offbyone(t, idx) ==
    IF idx = 0 THEN Ok(AtomNull)
    ELSE IF idx < t.first_atom THEN Ok(AtomBuiltin(idx))
    ELSE LET off == idx - t.first_atom IN
         IF off > Len(t.idx_to_atom) THEN Err(InvalidAtomIndex(idx))
         ELSE VecIndex(t.idx_to_atom, off)

resolve_idx(t, idx) ==
    IF idx = 0 THEN Ok(AtomNull)
    ELSE IF idx < t.first_atom THEN Ok(AtomBuiltin(idx))
    ELSE LET off == idx - t.first_atom IN
         IF off >= Len(t.idx_to_atom) THEN Err(InvalidAtomIndex(idx))
         ELSE VecIndex(t.idx_to_atom, off)

\* a result without cursor, placed at cursor p
At(r, p) == IF r.ok THEN ROk(r.v, p) ELSE RErr(r.err, p)

read_atom(t, b, p) ==
    LET l == Call("get_leb128_u32", <<b, p>>) IN
    IF ~l.ok THEN l
    ELSE IF 0 \in l.v THEN ROk(AtomTaggedInt(U32(Shr1(l.v))), l.pos)
    ELSE At(Call("resolve_idx", <<t, U32(Shr1(l.v))>>), l.pos)

LEGACY_V1_ATOMS == <<
    "null", "false", "true", "if", "else", "return", "var", "this", "delete",
    "void", "typeof", "new", "in", "instanceof", "do", "while", "for",
    "break", "continue", "switch", "case", "default", "throw", "try",
    "catch", "finally", "function", "debugger", "with", "__FILE__",
    "__DIR__", "class", "const", "enum", "export", "extends", "import",
    "super", "implements", "interface", "let", "package", "private",
    "protected", "public", "static", "yield", "await", "", "length",
    "fileName", "lineNumber", "message", "errors", "stack", "name",
    "toString", "toLocaleString", "valueOf", "eval", "prototype",
    "constructor", "configurable", "writable", "enumerable", "value", "get",
    "set", "of", "__proto__", "undefined", "number", "boolean", "string",
    "object", "symbol", "integer", "unknown", "arguments", "callee",
    "caller", "<eval>", "<ret>", "<var>", "<arg_var>", "<with>", "lastIndex",
    "target", "index", "input", "defineProperties", "apply", "join",
    "concat", "split", "construct", "getPrototypeOf", "setPrototypeOf",
    "isExtensible", "preventExtensions", "has", "deleteProperty",
    "defineProperty", "getOwnPropertyDescriptor", "ownKeys", "add", "done",
    "next", "values", "source", "flags", "global", "unicode", "raw",
    "new.target", "this.active_func", "<home_object>", "<computed_field>",
    "<static_computed_field>", "<class_fields_init>", "<brand>",
    "#constructor", "as", "from", "meta", "*default*", "*", "Module", "then",
    "resolve", "reject", "promise", "proxy", "revoke", "async", "exec",
    "groups", "status", "reason", "globalThis", "not-equal", "timed-out",
    "ok", "toJSON", "Object", "Array", "Error", "Number", "String",
    "Boolean", "Symbol", "Arguments", "Math", "JSON", "Date", "Function",
    "GeneratorFunction", "ForInIterator", "RegExp", "ArrayBuffer",
    "SharedArrayBuffer", "Uint8ClampedArray", "Int8Array", "Uint8Array",
    "Int16Array", "Uint16Array", "Int32Array", "Uint32Array", "Float32Array",
    "Float64Array", "DataView", "Map", "Set", "WeakMap", "WeakSet",
    "Map Iterator", "Set Iterator", "Array Iterator", "String Iterator",
    "RegExp String Iterator", "Generator", "Proxy", "Promise",
    "PromiseResolveFunction", "PromiseRejectFunction", "AsyncFunction",
    "AsyncFunctionResolve", "AsyncFunctionReject", "AsyncGeneratorFunction",
    "AsyncGenerator", "EvalError", "RangeError", "ReferenceError",
    "SyntaxError", "TypeError", "URIError", "InternalError", "<brand>",
    "Symbol.toPrimitive", "Symbol.iterator", "Symbol.match",
    "Symbol.matchAll", "Symbol.replace", "Symbol.search", "Symbol.split",
    "Symbol.toStringTag", "Symbol.isConcatSpreadable", "Symbol.hasInstance",
    "Symbol.species", "Symbol.unscopables", "Symbol.asyncIterator"
>>

to_atom_table(t1) ==
    [first_atom |-> 1,
     idx_to_atom |-> [i \in 1..Len(t1.atoms) |-> AtomString(t1.atoms[i])]]

\* read_atom_id indexing with id instead of id - 1
read_atom_id_nodec(t1, b, p) ==
    LET l == Call("get_leb128_u32", <<b, p>>) IN
    IF ~l.ok THEN l
    ELSE LET id == U32(l.v) IN
         IF id = 0 THEN ROk(AtomNull, l.pos)
         ELSE IF id < Len(t1.atoms) THEN ROk(AtomString(t1.atoms[id + 1]), l.pos)
         ELSE ROk(AtomRaw(id), l.pos)

read_atom_id(t1, b, p) ==
    LET l == Call("get_leb128_u32", <<b, p>>) IN
    IF ~l.ok THEN l
    ELSE LET id == U32(l.v)
             idx == IF id >= 1 THEN id - 1 ELSE 0 IN
         IF id = 0 THEN ROk(AtomNull, l.pos)
         ELSE IF idx < Len(t1.atoms) THEN ROk(AtomString(t1.atoms[idx + 1]), l.pos)
         ELSE ROk(AtomRaw(id), l.pos)

\* ------------------------------------------------------------------------
\* Specification of the atom tables: a table of either dialect, an
\* encoded atom field under a Reader, and the three look-ups
\* ------------------------------------------------------------------------

\* tables hold at most MaxUserAtoms atoms declared by the file
MaxUserAtoms == 2

\* the i-th atom a current-dialect file declares (all three entry types)
UserAtom(i) ==
    IF i % 3 = 1 THEN AtomString("a" \o ToString(i))
    ELSE IF i % 3 = 2 THEN AtomRaw(40 + i)
    ELSE AtomSymbol(2, "s" \o ToString(i))

CurrentTables ==
    {[first_atom |-> builtin_end_atom_id, idx_to_atom |-> [i \in 1..n |-> UserAtom(i)]] :
        n \in 0..MaxUserAtoms}

LegacyTables ==
    {[atoms |-> LEGACY_V1_ATOMS \o [i \in 1..n |-> "f" \o ToString(i)]] :
        n \in 0..MaxUserAtoms}

\* the values an encoded atom field takes: around every boundary of the
\* two index spaces
AtomFieldValues ==
    (0..(2 * (builtin_end_atom_id + MaxUserAtoms + 1) + 1))
    \cup {127, 128}
    \cup ((Len(LEGACY_V1_ATOMS) - 1)..(Len(LEGACY_V1_ATOMS) + MaxUserAtoms + 2))

\* the indices resolve_idx is applied to: around every boundary of a
\* current table and of an adapted legacy table
IdxSamples ==
    (0..(builtin_end_atom_id + MaxUserAtoms + 1))
    \cup ((Len(LEGACY_V1_ATOMS) - 1)..(Len(LEGACY_V1_ATOMS) + MaxUserAtoms + 2))

InitAtoms ==
    /\ tblV1 \in LegacyTables
    /\ tbl \in CurrentTables \cup {to_atom_table(tblV1)}
    /\ \/ \E n \in AtomFieldValues :
             /\ buf = ULeb128Enc(NatBits(n))
             /\ src = [kind |-> "atom", v |-> n]
       \/ /\ buf \in {<<>>, <<128>>}
          /\ src = [kind |-> "raw", v |-> 0]
    /\ pos = 0
    /\ last = [op |-> "none", start |-> 0, res |-> None]
    /\ DecompileIdle

ResolveIdx ==
    /\ \E idx \in IdxSamples :
          last' = [op |-> "resolve_idx", idx |-> idx, start |-> pos,
                   res |-> Call("resolve_idx", <<tbl, idx>>)]
    /\ UNCHANGED pos
    /\ ReaderFrame

ReadAtom ==
    /\ pos' = Call("read_atom", <<tbl, buf, pos>>).pos
    /\ last' = [op |-> "read_atom", start |-> pos, res |-> Call("read_atom", <<tbl, buf, pos>>)]
    /\ ReaderFrame

ReadAtomId ==
    /\ pos' = Call("read_atom_id", <<tblV1, buf, pos>>).pos
    /\ last' = [op |-> "read_atom_id", start |-> pos, res |-> Call("read_atom_id", <<tblV1, buf, pos>>)]
    /\ ReaderFrame

NextAtoms == ResolveIdx \/ ReadAtom \/ ReadAtomId

SpecAtoms == InitAtoms /\ [][NextAtoms]_vars

\* ------------------------------------------------------------------------
\* Claims about the atom tables
\* ------------------------------------------------------------------------

\* C9: resolve_idx returns Null for index 0, Builtin(i) for 0 < i <
\* first_atom, user_atoms[i - first_atom] for an index inside the user
\* list and InvalidAtomIndex(i) past its end; it never returns Builtin(0)
\* and never indexes outside the user list.
C9_ResolveIdx ==
    last.op = "resolve_idx" =>
        LET i == last.idx
            f == tbl.first_atom
            n == Len(tbl.idx_to_atom) IN
        /\ i = 0 => last.res = Ok(AtomNull)
        /\ (0 < i /\ i < f) => last.res = Ok(AtomBuiltin(i))
        /\ (0 < i /\ f <= i /\ i < f + n) => last.res = Ok(tbl.idx_to_atom[i - f + 1])
        /\ (0 < i /\ f <= i /\ i >= f + n) => last.res = Err(InvalidAtomIndex(i))
        /\ last.res # Ok(AtomBuiltin(0))
        /\ last.res # Panic

\* the last user atom of a non-empty table has been resolved
C9_Witness ==
    /\ last.op = "resolve_idx"
    /\ Len(tbl.idx_to_atom) > 0
    /\ last.idx = tbl.first_atom + Len(tbl.idx_to_atom) - 1
    /\ last.res.ok

\* the atoms a table can hand out according to the claim
PresentAtoms(t) == {t.idx_to_atom[k] : k \in 1..Len(t.idx_to_atom)}

\* C10 as stated: every atom field read while decoding a value, in
\* either dialect, yields Null, a Builtin or an atom present in the user
\* list, and an index past the end of the user list yields the error
\* InvalidAtomIndex.
C10_AtomFieldTotal ==
    /\ (last.op = "read_atom" /\ last.start = 0 /\ last.res.ok) =>
          \/ last.res.v = AtomNull
          \/ last.res.v.t = "Builtin"
          \/ last.res.v \in PresentAtoms(tbl)
    /\ (last.op = "read_atom_id" /\ last.start = 0 /\ src.kind = "atom") =>
          \/ last.res.ok /\ last.res.v = AtomNull
          \/ last.res.ok /\ last.res.v \in PresentAtoms(to_atom_table(tblV1))
          \/ ~last.res.ok /\ src.v > Len(tblV1.atoms)
                /\ last.res.err = InvalidAtomIndex(src.v)

\* C10 as amended: read_atom yields TaggedInt(v >> 1) when bit 0 of the
\* field v is set and otherwise what resolve_idx yields for v >> 1 (Null,
\* Builtin, a present user atom, or InvalidAtomIndex past the end);
\* read_atom_id yields Null for 0, the string atoms[id - 1] inside the
\* list and the atom Raw(id), not an error, past its end.
C10_AtomFieldAmended ==
    /\ (last.op = "read_atom" /\ last.start = 0 /\ src.kind = "atom") =>
          LET i == src.v \div 2
              f == tbl.first_atom
              n == Len(tbl.idx_to_atom) IN
          /\ pos = Len(buf)
          /\ src.v % 2 = 1 => (last.res.ok /\ last.res.v = AtomTaggedInt(i))
          /\ (src.v % 2 = 0 /\ i = 0) => (last.res.ok /\ last.res.v = AtomNull)
          /\ (src.v % 2 = 0 /\ 0 < i /\ i < f) =>
                (last.res.ok /\ last.res.v = AtomBuiltin(i))
          /\ (src.v % 2 = 0 /\ 0 < i /\ f <= i /\ i < f + n) =>
                (last.res.ok /\ last.res.v = tbl.idx_to_atom[i - f + 1])
          /\ (src.v % 2 = 0 /\ 0 < i /\ f <= i /\ i >= f + n) =>
                (~last.res.ok /\ last.res.err = InvalidAtomIndex(i))
    /\ (last.op = "read_atom_id" /\ last.start = 0 /\ src.kind = "atom") =>
          LET id == src.v
              n == Len(tblV1.atoms) IN
          /\ pos = Len(buf)
          /\ last.res.ok
          /\ id = 0 => last.res.v = AtomNull
          /\ (0 < id /\ id <= n) => last.res.v = AtomString(tblV1.atoms[id])
          /\ id > n => last.res.v = AtomRaw(id)

\* a legacy atom field one past the end of the list has been read
C10_Witness ==
    /\ last.op = "read_atom_id" /\ last.start = 0 /\ src.kind = "atom"
    /\ src.v = Len(tblV1.atoms) + 1
    /\ last.res.ok /\ last.res.v.t = "Raw"

\* ------------------------------------------------------------------------
\* Strings of the engine and the atom table readers
\* ------------------------------------------------------------------------

BC_VERSION == 23
BC_VERSION_V1 == 1

\* the printable ASCII characters 32..95 and 97..126
AsciiLow == " !\"#$%&'()*+,-./0123456789:;<=>?@ABCDEFGHIJKLMNOPQRSTUVWXYZ[\\]^_"
AsciiHigh == "abcdefghijklmnopqrstuvwxyz{|}~"

\* a Unicode scalar value as a piece of a String; a character outside the
\* two ranges is written as its escape, which keeps distinct characters
\* distinct
Chr(c) == IF c \in 32..95 THEN SubSeq(AsciiLow, c - 31, c - 31)
          ELSE IF c \in 97..126 THEN SubSeq(AsciiHigh, c - 96, c - 96)
          ELSE "\\u{" \o ToString(c) \o "}"

\* char::from_u32(c), or U+FFFD for a surrogate, of a 16-bit code unit
CharFromU16(c) == IF c \in 55296..57343 THEN 65533 ELSE c

\* String::from_utf8_lossy: an ASCII byte is its character; a byte that
\* cannot start or continue a sequence here (0x80..0xBF with no lead before
\* it, 0xF5..0xFF) is one U+FFFD.  Inputs hold no lead byte 0xC2..0xF4.
Utf8LossyChar(byte) == IF byte < 128 THEN byte ELSE 65533

RECURSIVE from_utf8_lossy(_)
from_utf8_lossy(bytes) ==
    IF bytes = <<>> THEN ""
    ELSE Chr(Utf8LossyChar(Head(bytes))) \o from_utf8_lossy(Tail(bytes))

RECURSIVE wide_chars(_)
wide_chars(bytes) ==
    IF Len(bytes) < 2 THEN ""
    ELSE Chr(CharFromU16(bytes[1] + 256 * bytes[2]))
         \o wide_chars(SubSeq(bytes, 3, Len(bytes)))

read_qjs_string(b, p) ==
    LET l == Call("get_leb128_u32", <<b, p>>) IN
    IF ~l.ok THEN l
    ELSE LET is_wide == 0 \in l.v
             len == U32(Shr1(l.v)) IN
         IF is_wide
         THEN LET g == get_bytes(b, l.pos, len * 2) IN
              IF ~g.ok THEN g ELSE ROk(wide_chars(g.v), g.pos)
         ELSE LET g == get_bytes(b, l.pos, len) IN
              IF ~g.ok THEN g ELSE ROk(from_utf8_lossy(g.v), g.pos)

\* the loop of read_atom_table over the declared entries
RECURSIVE read_atom_entries(_, _, _, _)
read_atom_entries(b, p, n, acc) ==
    IF n = 0 THEN ROk(acc, p)
    ELSE LET ty == Call("get_u8", <<b, p>>) IN
         IF ~ty.ok THEN ty
         ELSE IF ty.v = 0
         THEN LET a == get_u32(b, ty.pos) IN
              IF ~a.ok THEN a
              ELSE read_atom_entries(b, a.pos, n - 1, Append(acc, AtomRaw(U32(a.v))))
         ELSE LET d == Call("read_qjs_string", <<b, ty.pos>>) IN
              IF ~d.ok THEN d
              ELSE read_atom_entries(b, d.pos, n - 1,
                       Append(acc, IF ty.v = 1 THEN AtomString(d.v)
                                   ELSE AtomSymbol(ty.v, d.v)))

read_atom_table(b, p) ==
    LET ver == Call("get_u8", <<b, p>>) IN
    IF ~ver.ok THEN ver
    ELSE IF ver.v # BC_VERSION THEN RErr(InvalidVersion(ver.v), ver.pos)
    ELSE LET count == Call("get_leb128_u32", <<b, ver.pos>>) IN
         IF ~count.ok THEN count
         ELSE LET es == read_atom_entries(b, count.pos, U32(count.v), <<>>) IN
              IF ~es.ok THEN es
              ELSE ROk([first_atom |-> builtin_end_atom_id, idx_to_atom |-> es.v], es.pos)

\* the loop of read_atom_table_v1 over the strings the file declares
RECURSIVE read_strings(_, _, _, _)
read_strings(b, p, n, acc) ==
    IF n = 0 THEN ROk(acc, p)
    ELSE LET d == Call("read_qjs_string", <<b, p>>) IN
         IF ~d.ok THEN d ELSE read_strings(b, d.pos, n - 1, Append(acc, d.v))

read_atom_table_v1(b, p) ==
    LET ver == Call("get_u8", <<b, p>>) IN
    IF ~ver.ok THEN ver
    ELSE IF ver.v # BC_VERSION_V1 THEN RErr(InvalidVersion(ver.v), ver.pos)
    ELSE LET count == Call("get_leb128_u32", <<b, ver.pos>>) IN
         IF ~count.ok THEN count
         ELSE LET es == read_strings(b, count.pos, U32(count.v), LEGACY_V1_ATOMS) IN
              IF ~es.ok THEN es ELSE ROk([atoms |-> es.v], es.pos)

\* ------------------------------------------------------------------------
\* Values
\* ------------------------------------------------------------------------

BC_TAG_NULL == 1
BC_TAG_UNDEFINED == 2
BC_TAG_BOOL_FALSE == 3
BC_TAG_BOOL_TRUE == 4
BC_TAG_INT32 == 5
BC_TAG_FLOAT64 == 6
BC_TAG_STRING == 7
BC_TAG_OBJECT == 8
BC_TAG_ARRAY == 9
BC_TAG_BIG_INT == 10
BC_TAG_TEMPLATE_OBJECT == 11
BC_TAG_FUNCTION_BYTECODE == 12
BC_TAG_MODULE == 13
BC_TAG_TYPED_ARRAY == 14
BC_TAG_ARRAY_BUFFER == 15
BC_TAG_SHARED_ARRAY_BUFFER == 16
BC_TAG_REGEXP == 17
BC_TAG_DATE == 18
BC_TAG_OBJECT_VALUE == 19
BC_TAG_OBJECT_REFERENCE == 20
BC_TAG_MAP == 21
BC_TAG_SET == 22
BC_TAG_SYMBOL == 23

BC_TAG_TEMPLATE_OBJECT_V1 == 13
BC_TAG_FUNCTION_BYTECODE_V1 == 14
BC_TAG_MODULE_V1 == 15
BC_TAG_TYPED_ARRAY_V1 == 16
BC_TAG_ARRAY_BUFFER_V1 == 17
BC_TAG_SHARED_ARRAY_BUFFER_V1 == 18
BC_TAG_DATE_V1 == 19
BC_TAG_OBJECT_VALUE_V1 == 20
BC_TAG_OBJECT_REFERENCE_V1 == 21

VNull == [k |-> "Null"]
VUndefined == [k |-> "Undefined"]
VBool(x) == [k |-> "Bool", b |-> x]
VInt32(x) == [k |-> "Int32", v |-> x]
VFloat64(bytes) == [k |-> "Float64", bits |-> bytes]
VString(x) == [k |-> "String", s |-> x]
VArray(items) == [k |-> "Array", items |-> items]
VObject(props) == [k |-> "Object", props |-> props]
VModule(name, f) == [k |-> "Module", name |-> name, func_obj |-> f]
VRegExp(pattern, bc) == [k |-> "RegExp", pattern |-> pattern, bytecode |-> bc]
VBigInt(bytes) == [k |-> "BigInt", bytes |-> bytes]
VSymbol(a) == [k |-> "Symbol", atom |-> a]
VArrayBuffer(bytes) == [k |-> "ArrayBuffer", bytes |-> bytes]
VTypedArray(kind, len, offset, buffer) ==
    [k |-> "TypedArray", kind |-> kind, len |-> len, offset |-> offset, buffer |-> buffer]
VDate(x) == [k |-> "Date", value |-> x]
VFunction(bc) == [k |-> "Function", bc |-> bc]
VUnsupported(tag) == [k |-> "Unsupported", tag |-> tag]

VarDef(name, scope_level, scope_next, flags, var_ref_idx) ==
    [name |-> name, scope_level |-> scope_level, scope_next |-> scope_next,
     flags |-> flags, var_ref_idx |-> var_ref_idx]
ClosureVar(name, var_idx, flags) == [name |-> name, var_idx |-> var_idx, flags |-> flags]

\* `x as u16` of a u32
AsU16(bits) == Call("ToNat", <<bits \cap (0..15)>>)

\* the atom reader of a dialect, for the loops the two dialects share
AtomOf(d, t, b, p) == IF d = "Legacy" THEN Call("read_atom_id", <<t, b, p>>) ELSE Call("read_atom", <<t, b, p>>)

\* `for _ in 0..n { let _ = r.get_leb128_u32()?; }`
RECURSIVE skip_lebs(_, _, _)
skip_lebs(b, p, n) ==
    IF n = 0 THEN ROk(None, p)
    ELSE LET l == Call("get_leb128_u32", <<b, p>>) IN
         IF ~l.ok THEN l ELSE skip_lebs(b, l.pos, n - 1)

\* the requested-module loop of a Module value
RECURSIVE skip_atoms(_, _, _, _, _)
skip_atoms(d, t, b, p, n) ==
    IF n = 0 THEN ROk(None, p)
    ELSE LET a == AtomOf(d, t, b, p) IN
         IF ~a.ok THEN a ELSE Call("skip_atoms", <<d, t, b, a.pos, n - 1>>)

\* the export loop of a Module value
RECURSIVE skip_exports(_, _, _, _, _)
skip_exports(d, t, b, p, n) ==
    IF n = 0 THEN ROk(None, p)
    ELSE LET ty == Call("get_u8", <<b, p>>) IN
         IF ~ty.ok THEN ty
         ELSE LET l == Call("get_leb128_u32", <<b, ty.pos>>) IN
              IF ~l.ok THEN l
              ELSE LET x == IF ty.v = 0 THEN ROk(None, l.pos)
                            ELSE AtomOf(d, t, b, l.pos) IN
                   IF ~x.ok THEN x
                   ELSE LET a == AtomOf(d, t, b, x.pos) IN
                        IF ~a.ok THEN a ELSE Call("skip_exports", <<d, t, b, a.pos, n - 1>>)

\* the import loop of a Module value
RECURSIVE skip_imports(_, _, _, _, _)
skip_imports(d, t, b, p, n) ==
    IF n = 0 THEN ROk(None, p)
    ELSE LET l == Call("get_leb128_u32", <<b, p>>) IN
         IF ~l.ok THEN l
         ELSE LET a == AtomOf(d, t, b, l.pos) IN
              IF ~a.ok THEN a
              ELSE LET m == Call("get_leb128_u32", <<b, a.pos>>) IN
                   IF ~m.ok THEN m ELSE skip_imports(d, t, b, m.pos, n - 1)

\* the four loops of a Module value after its name, in the order of the file
module_tables(d, t, b, p) ==
    LET rc == Call("get_leb128_u32", <<b, p>>) IN
    IF ~rc.ok THEN rc
    ELSE LET r1 == Call("skip_atoms", <<d, t, b, rc.pos, U32(rc.v)>>) IN
    IF ~r1.ok THEN r1
    ELSE LET ec == Call("get_leb128_u32", <<b, r1.pos>>) IN
    IF ~ec.ok THEN ec
    ELSE LET r2 == Call("skip_exports", <<d, t, b, ec.pos, U32(ec.v)>>) IN
    IF ~r2.ok THEN r2
    ELSE LET sc == Call("get_leb128_u32", <<b, r2.pos>>) IN
    IF ~sc.ok THEN sc
    ELSE LET r3 == skip_lebs(b, sc.pos, U32(sc.v)) IN
    IF ~r3.ok THEN r3
    ELSE LET ic == Call("get_leb128_u32", <<b, r3.pos>>) IN
    IF ~ic.ok THEN ic
    ELSE skip_imports(d, t, b, ic.pos, U32(ic.v))

\* n consecutive LEB128 fields, as u32 words
RECURSIVE read_lebs(_, _, _, _)
read_lebs(b, p, n, acc) ==
    IF n = 0 THEN ROk(acc, p)
    ELSE LET l == Call("get_leb128_u32", <<b, p>>) IN
         IF ~l.ok THEN l ELSE Call("read_lebs", <<b, l.pos, n - 1, Append(acc, l.v)>>)

\* ------------------------------------------------------------------------
\* The legacy (v1) value reader
\* ------------------------------------------------------------------------

RECURSIVE read_value_v1(_, _, _)
RECURSIVE read_values_v1(_, _, _, _, _)
RECURSIVE read_props_v1(_, _, _, _, _)
RECURSIVE read_function_bytecode_v1(_, _, _)

\* `for _ in 0..n { items.push(read_value_v1(r, atoms)?) }`
read_values_v1(t1, b, p, n, acc) ==
    IF n = 0 THEN ROk(acc, p)
    ELSE LET x == Call("read_value_v1", <<t1, b, p>>) IN
         IF ~x.ok THEN x ELSE read_values_v1(t1, b, x.pos, n - 1, Append(acc, x.v))

\* the property loop of an Object value
read_props_v1(t1, b, p, n, acc) ==
    IF n = 0 THEN ROk(acc, p)
    ELSE LET name == Call("read_atom_id", <<t1, b, p>>) IN
         IF ~name.ok THEN name
         ELSE LET val == Call("read_value_v1", <<t1, b, name.pos>>) IN
              IF ~val.ok THEN val
              ELSE read_props_v1(t1, b, val.pos, n - 1, Append(acc, <<name.v, val.v>>))

\* the local-variable loop of read_function_bytecode_v1
RECURSIVE read_locals_v1(_, _, _, _, _)
read_locals_v1(t1, b, p, n, acc) ==
    IF n = 0 THEN ROk(acc, p)
    ELSE LET name == Call("read_atom_id", <<t1, b, p>>) IN
         IF ~name.ok THEN name
         ELSE LET ls == Call("read_lebs", <<b, name.pos, 2, <<>>>>) IN
              IF ~ls.ok THEN ls
              ELSE LET fl == Call("get_u8", <<b, ls.pos>>) IN
                   IF ~fl.ok THEN fl
                   ELSE Call("read_locals_v1", <<t1, b, fl.pos, n - 1,
                            Append(acc, VarDef(name.v, U32(ls.v[1]), U32(ls.v[2]), fl.v, None))>>)

\* the closure-variable loop of read_function_bytecode_v1
RECURSIVE read_closure_vars_v1(_, _, _, _, _)
read_closure_vars_v1(t1, b, p, n, acc) ==
    IF n = 0 THEN ROk(acc, p)
    ELSE LET name == Call("read_atom_id", <<t1, b, p>>) IN
         IF ~name.ok THEN name
         ELSE LET vi == Call("get_leb128_u32", <<b, name.pos>>) IN
              IF ~vi.ok THEN vi
              ELSE LET fl == Call("get_u8", <<b, vi.pos>>) IN
                   IF ~fl.ok THEN fl
                   ELSE Call("read_closure_vars_v1", <<t1, b, fl.pos, n - 1,
                            Append(acc, ClosureVar(name.v, U32(vi.v), fl.v))>>)

\* the debug block of a legacy function: file atom, line, line map
read_debug_v1(t1, b, p) ==
    LET file == Call("read_atom_id", <<t1, b, p>>) IN
    IF ~file.ok THEN file
    ELSE LET ls == Call("read_lebs", <<b, file.pos, 2, <<>>>>) IN
         IF ~ls.ok THEN ls
         ELSE get_bytes(b, ls.pos, U32(ls.v[2]))

read_function_bytecode_v1(t1, b, p) ==
    LET flags == Call("get_u16", <<b, p>>) IN
    IF ~flags.ok THEN flags
    ELSE LET js_mode == Call("get_u8", <<b, flags.pos>>) IN
    IF ~js_mode.ok THEN js_mode
    ELSE LET func_name == Call("read_atom_id", <<t1, b, js_mode.pos>>) IN
    IF ~func_name.ok THEN func_name
    ELSE LET h == Call("read_lebs", <<b, func_name.pos, 8, <<>>>>) IN
    IF ~h.ok THEN h
    ELSE LET closure_var_count == AsU16(h.v[5])
             cpool_count == U32(h.v[6])
             byte_code_len == U32(h.v[7])
             local_count == U32(h.v[8])
             locals == Call("read_locals_v1", <<t1, b, h.pos, local_count, <<>>>>) IN
    IF ~locals.ok THEN locals
    ELSE LET closure_vars == Call("read_closure_vars_v1", <<t1, b, locals.pos, closure_var_count, <<>>>>) IN
    IF ~closure_vars.ok THEN closure_vars
    ELSE LET bytecode == get_bytes(b, closure_vars.pos, byte_code_len) IN
    IF ~bytecode.ok THEN bytecode
    ELSE LET has_debug == flags.v \div 32768 = 1
             dbg == IF has_debug THEN read_debug_v1(t1, b, bytecode.pos)
                    ELSE ROk(None, bytecode.pos) IN
    IF ~dbg.ok THEN dbg
    ELSE LET cpool == read_values_v1(t1, b, dbg.pos, cpool_count, <<>>) IN
    IF ~cpool.ok THEN cpool
    ELSE ROk([func_name |-> func_name.v,
              is_strict_mode |-> FALSE,
              arg_count |-> AsU16(h.v[1]),
              var_count |-> AsU16(h.v[2]),
              defined_arg_count |-> AsU16(h.v[3]),
              stack_size |-> AsU16(h.v[4]),
              var_ref_count |-> 0,
              closure_var_count |-> closure_var_count,
              cpool_count |-> cpool_count,
              byte_code_len |-> byte_code_len,
              locals |-> locals.v,
              closure_vars |-> closure_vars.v,
              cpool |-> cpool.v,
              bytecode |-> bytecode.v], cpool.pos)

\* the Array / TemplateObject arm of read_value_v1
read_array_v1(t1, b, p, tag) ==
    LET len == Call("get_leb128_u32", <<b, p>>) IN
    IF ~len.ok THEN len
    ELSE LET items == read_values_v1(t1, b, len.pos, U32(len.v), <<>>) IN
         IF ~items.ok THEN items
         ELSE IF tag = BC_TAG_TEMPLATE_OBJECT_V1
              THEN LET tpl == Call("read_value_v1", <<t1, b, items.pos>>) IN
                   IF ~tpl.ok THEN tpl ELSE ROk(VArray(items.v), tpl.pos)
              ELSE ROk(VArray(items.v), items.pos)

\* the Module arm of read_value_v1
read_module_v1(t1, b, p) ==
    LET name == Call("read_atom_id", <<t1, b, p>>) IN
    IF ~name.ok THEN name
    ELSE LET m == Call("module_tables", <<"Legacy", t1, b, name.pos>>) IN
         IF ~m.ok THEN m
         ELSE LET func_obj == Call("read_value_v1", <<t1, b, m.pos>>) IN
              IF ~func_obj.ok THEN func_obj
              ELSE ROk(VModule(name.v, func_obj.v), func_obj.pos)

\* the TypedArray arm of read_value_v1
read_typed_array_v1(t1, b, p) ==
    LET kind == Call("get_u8", <<b, p>>) IN
    IF ~kind.ok THEN kind
    ELSE LET ls == Call("read_lebs", <<b, kind.pos, 2, <<>>>>) IN
         IF ~ls.ok THEN ls
         ELSE LET buffer == Call("read_value_v1", <<t1, b, ls.pos>>) IN
              IF ~buffer.ok THEN buffer
              ELSE ROk(VTypedArray(kind.v, U32(ls.v[1]), U32(ls.v[2]), buffer.v), buffer.pos)

\* `Ok(C(x?))`: wrap the value of a successful read
Wrap(r, C(_)) == IF r.ok THEN ROk(C(r.v), r.pos) ELSE r
Int32Of(bits) == VInt32(I32ToInt(bits))
BytesThen(b, len, C(_)) ==
    IF ~len.ok THEN len ELSE Wrap(get_bytes(b, len.pos, U32(len.v)), C)
Const(r, v) == IF r.ok THEN ROk(v, r.pos) ELSE r

read_value_v1(t1, b, p) ==
    LET tag == Call("get_u8", <<b, p>>) IN
    IF ~tag.ok THEN tag
    ELSE LET q == tag.pos IN
    CASE tag.v = BC_TAG_NULL -> ROk(VNull, q)
      [] tag.v = BC_TAG_UNDEFINED -> ROk(VUndefined, q)
      [] tag.v = BC_TAG_BOOL_FALSE -> ROk(VBool(FALSE), q)
      [] tag.v = BC_TAG_BOOL_TRUE -> ROk(VBool(TRUE), q)
      [] tag.v = BC_TAG_INT32 -> Wrap(get_sleb128_i32(b, q), Int32Of)
      [] tag.v = BC_TAG_FLOAT64 -> Wrap(get_f64(b, q), VFloat64)
      [] tag.v = BC_TAG_STRING -> Wrap(Call("read_qjs_string", <<b, q>>), VString)
      [] tag.v = BC_TAG_OBJECT ->
            LET n == Call("get_leb128_u32", <<b, q>>) IN
            IF ~n.ok THEN n
            ELSE Wrap(read_props_v1(t1, b, n.pos, U32(n.v), <<>>), VObject)
      [] tag.v \in {BC_TAG_ARRAY, BC_TAG_TEMPLATE_OBJECT_V1} -> read_array_v1(t1, b, q, tag.v)
      [] tag.v = BC_TAG_FUNCTION_BYTECODE_V1 ->
            Wrap(read_function_bytecode_v1(t1, b, q), VFunction)
      [] tag.v = BC_TAG_MODULE_V1 -> read_module_v1(t1, b, q)
      [] tag.v = BC_TAG_TYPED_ARRAY_V1 -> read_typed_array_v1(t1, b, q)
      [] tag.v = BC_TAG_ARRAY_BUFFER_V1 ->
            BytesThen(b, Call("get_leb128_u32", <<b, q>>), VArrayBuffer)
      [] tag.v = BC_TAG_SHARED_ARRAY_BUFFER_V1 ->
            LET len == Call("get_leb128_u32", <<b, q>>) IN
            IF ~len.ok THEN len
            ELSE Const(get_u64(b, len.pos), VUnsupported(tag.v))
      [] tag.v = BC_TAG_DATE_V1 -> Wrap(Call("read_value_v1", <<t1, b, q>>), VDate)
      [] tag.v = BC_TAG_OBJECT_VALUE_V1 -> Call("read_value_v1", <<t1, b, q>>)
      [] tag.v = BC_TAG_OBJECT_REFERENCE_V1 ->
            Const(Call("get_leb128_u32", <<b, q>>), VUnsupported(tag.v))
      [] OTHER -> RErr(UnsupportedTag(tag.v), q)

\* ------------------------------------------------------------------------
\* The current value reader
\* ------------------------------------------------------------------------

RECURSIVE read_value(_, _, _)
RECURSIVE read_values(_, _, _, _, _)
RECURSIVE read_props(_, _, _, _, _)
RECURSIVE read_function_bytecode(_, _, _)

\* `for _ in 0..n { items.push(read_value(r, atoms)?) }`
read_values(t, b, p, n, acc) ==
    IF n = 0 THEN ROk(acc, p)
    ELSE LET x == Call("read_value", <<t, b, p>>) IN
         IF ~x.ok THEN x ELSE read_values(t, b, x.pos, n - 1, Append(acc, x.v))

\* the property loop of an Object value
read_props(t, b, p, n, acc) ==
    IF n = 0 THEN ROk(acc, p)
    ELSE LET name == Call("read_atom", <<t, b, p>>) IN
         IF ~name.ok THEN name
         ELSE LET val == Call("read_value", <<t, b, name.pos>>) IN
              IF ~val.ok THEN val
              ELSE read_props(t, b, val.pos, n - 1, Append(acc, <<name.v, val.v>>))

\* x.saturating_sub(1) of a u32
SaturatingSub1(bits) == IF bits = {} THEN 0 ELSE U32(bits) - 1

\* the local-variable loop of read_function_bytecode
RECURSIVE read_locals(_, _, _, _, _)
read_locals(t, b, p, n, acc) ==
    IF n = 0 THEN ROk(acc, p)
    ELSE LET name == Call("read_atom", <<t, b, p>>) IN
         IF ~name.ok THEN name
         ELSE LET ls == Call("read_lebs", <<b, name.pos, 2, <<>>>>) IN
         IF ~ls.ok THEN ls
         ELSE LET fl == Call("get_u8", <<b, ls.pos>>) IN
         IF ~fl.ok THEN fl
         ELSE LET is_captured == (fl.v \div 64) % 2 = 1
                  vr == IF is_captured THEN Call("get_leb128_u32", <<b, fl.pos>>)
                        ELSE ROk(None, fl.pos) IN
         IF ~vr.ok THEN vr
         ELSE Call("read_locals", <<t, b, vr.pos, n - 1,
                  Append(acc, VarDef(name.v, U32(ls.v[1]), SaturatingSub1(ls.v[2]), fl.v,
                                     IF is_captured THEN Some(U32(vr.v)) ELSE None))>>)

\* the closure-variable loop of read_function_bytecode
RECURSIVE read_closure_vars(_, _, _, _, _)
read_closure_vars(t, b, p, n, acc) ==
    IF n = 0 THEN ROk(acc, p)
    ELSE LET name == Call("read_atom", <<t, b, p>>) IN
         IF ~name.ok THEN name
         ELSE LET ls == Call("read_lebs", <<b, name.pos, 2, <<>>>>) IN
              IF ~ls.ok THEN ls
              ELSE read_closure_vars(t, b, ls.pos, n - 1,
                       Append(acc, ClosureVar(name.v, U32(ls.v[1]), U32(ls.v[2]))))

read_function_bytecode(t, b, p) ==
    LET flags == Call("get_u16", <<b, p>>) IN
    IF ~flags.ok THEN flags
    ELSE LET strict == Call("get_u8", <<b, flags.pos>>) IN
    IF ~strict.ok THEN strict
    ELSE LET func_name == Call("read_atom", <<t, b, strict.pos>>) IN
    IF ~func_name.ok THEN func_name
    ELSE LET h == Call("read_lebs", <<b, func_name.pos, 9, <<>>>>) IN
    IF ~h.ok THEN h
    ELSE LET closure_var_count == AsU16(h.v[6])
             cpool_count == U32(h.v[7])
             byte_code_len == U32(h.v[8])
             local_count == U32(h.v[9])
             locals == Call("read_locals", <<t, b, h.pos, local_count, <<>>>>) IN
    IF ~locals.ok THEN locals
    ELSE LET closure_vars == read_closure_vars(t, b, locals.pos, closure_var_count, <<>>) IN
    IF ~closure_vars.ok THEN closure_vars
    ELSE LET cpool == read_values(t, b, closure_vars.pos, cpool_count, <<>>) IN
    IF ~cpool.ok THEN cpool
    ELSE LET bytecode == get_bytes(b, cpool.pos, byte_code_len) IN
    IF ~bytecode.ok THEN bytecode
    ELSE ROk([func_name |-> func_name.v,
              is_strict_mode |-> strict.v # 0,
              arg_count |-> AsU16(h.v[1]),
              var_count |-> AsU16(h.v[2]),
              defined_arg_count |-> AsU16(h.v[3]),
              stack_size |-> AsU16(h.v[4]),
              var_ref_count |-> AsU16(h.v[5]),
              closure_var_count |-> closure_var_count,
              cpool_count |-> cpool_count,
              byte_code_len |-> byte_code_len,
              locals |-> locals.v,
              closure_vars |-> closure_vars.v,
              cpool |-> cpool.v,
              bytecode |-> bytecode.v], bytecode.pos)

\* the Array / TemplateObject arm of read_value
read_array(t, b, p, tag) ==
    LET len == Call("get_leb128_u32", <<b, p>>) IN
    IF ~len.ok THEN len
    ELSE LET items == read_values(t, b, len.pos, U32(len.v), <<>>) IN
         IF ~items.ok THEN items
         ELSE IF tag = BC_TAG_TEMPLATE_OBJECT
              THEN LET raw == Call("read_value", <<t, b, items.pos>>) IN
                   IF ~raw.ok THEN raw ELSE ROk(VArray(items.v), raw.pos)
              ELSE ROk(VArray(items.v), items.pos)

\* the RegExp arm of read_value
read_regexp(b, p) ==
    LET pattern == Call("read_qjs_string", <<b, p>>) IN
    IF ~pattern.ok THEN pattern
    ELSE LET bc == Call("read_qjs_string", <<b, pattern.pos>>) IN
         IF ~bc.ok THEN bc ELSE ROk(VRegExp(pattern.v, bc.v), bc.pos)

\* the ArrayBuffer arm of read_value
read_array_buffer(b, p) ==
    LET ls == Call("read_lebs", <<b, p, 2, <<>>>>) IN
    IF ~ls.ok THEN ls
    ELSE Wrap(get_bytes(b, ls.pos, U32(ls.v[1])), VArrayBuffer)

\* the TypedArray arm of read_value
read_typed_array(t, b, p) ==
    LET kind == Call("get_u8", <<b, p>>) IN
    IF ~kind.ok THEN kind
    ELSE LET ls == Call("read_lebs", <<b, kind.pos, 2, <<>>>>) IN
         IF ~ls.ok THEN ls
         ELSE LET buffer == Call("read_value", <<t, b, ls.pos>>) IN
              IF ~buffer.ok THEN buffer
              ELSE ROk(VTypedArray(kind.v, U32(ls.v[1]), U32(ls.v[2]), buffer.v), buffer.pos)

\* the Module arm of read_value
read_module(t, b, p) ==
    LET name == Call("read_atom", <<t, b, p>>) IN
    IF ~name.ok THEN name
    ELSE LET m == Call("module_tables", <<"Current", t, b, name.pos>>) IN
         IF ~m.ok THEN m
         ELSE LET has_tla == Call("get_u8", <<b, m.pos>>) IN
              IF ~has_tla.ok THEN has_tla
              ELSE LET func_obj == Call("read_value", <<t, b, has_tla.pos>>) IN
                   IF ~func_obj.ok THEN func_obj
                   ELSE ROk(VModule(name.v, func_obj.v), func_obj.pos)

\* the refused tags without Map
RefusedTagsNoMap == {BC_TAG_SHARED_ARRAY_BUFFER, BC_TAG_OBJECT_VALUE, BC_TAG_OBJECT_REFERENCE,
                     BC_TAG_SET}

\* the tags the current dialect declares and refuses
RefusedTags == {BC_TAG_SHARED_ARRAY_BUFFER, BC_TAG_OBJECT_VALUE, BC_TAG_OBJECT_REFERENCE,
                BC_TAG_MAP, BC_TAG_SET}

read_value(t, b, p) ==
    LET tag == Call("get_u8", <<b, p>>) IN
    IF ~tag.ok THEN tag
    ELSE LET q == tag.pos IN
    CASE tag.v = BC_TAG_NULL -> ROk(VNull, q)
      [] tag.v = BC_TAG_UNDEFINED -> ROk(VUndefined, q)
      [] tag.v = BC_TAG_BOOL_FALSE -> ROk(VBool(FALSE), q)
      [] tag.v = BC_TAG_BOOL_TRUE -> ROk(VBool(TRUE), q)
      [] tag.v = BC_TAG_INT32 -> Wrap(get_sleb128_i32(b, q), Int32Of)
      [] tag.v = BC_TAG_FLOAT64 -> Wrap(get_f64(b, q), VFloat64)
      [] tag.v = BC_TAG_STRING -> Wrap(Call("read_qjs_string", <<b, q>>), VString)
      [] tag.v = BC_TAG_OBJECT ->
            LET n == Call("get_leb128_u32", <<b, q>>) IN
            IF ~n.ok THEN n
            ELSE Wrap(read_props(t, b, n.pos, U32(n.v), <<>>), VObject)
      [] tag.v \in {BC_TAG_ARRAY, BC_TAG_TEMPLATE_OBJECT} -> read_array(t, b, q, tag.v)
      [] tag.v = BC_TAG_REGEXP -> read_regexp(b, q)
      [] tag.v = BC_TAG_BIG_INT -> BytesThen(b, Call("get_leb128_u32", <<b, q>>), VBigInt)
      [] tag.v = BC_TAG_SYMBOL -> Wrap(Call("read_atom", <<t, b, q>>), VSymbol)
      [] tag.v = BC_TAG_ARRAY_BUFFER -> read_array_buffer(b, q)
      [] tag.v = BC_TAG_TYPED_ARRAY -> read_typed_array(t, b, q)
      [] tag.v = BC_TAG_DATE -> Wrap(Call("read_value", <<t, b, q>>), VDate)
      [] tag.v = BC_TAG_MODULE -> read_module(t, b, q)
      [] tag.v = BC_TAG_FUNCTION_BYTECODE -> Wrap(read_function_bytecode(t, b, q), VFunction)
      [] OTHER -> IF tag.v \in RefusedTags THEN RErr(UnsupportedTag(tag.v), q)
                  ELSE ROk(VUnsupported(tag.v), q)

\* ------------------------------------------------------------------------
\* Instructions and the two decoders
\* ------------------------------------------------------------------------

OpInfo(name, size, n_pop, n_push, fmt) ==
    [name |-> name, size |-> size, n_pop |-> n_pop, n_push |-> n_push, fmt |-> fmt]

OPCODE_INFO_V1 == <<
    OpInfo("invalid", 1, 0, 0, "None"),
    OpInfo("push_i32", 5, 0, 1, "I32"),
    OpInfo("push_const", 5, 0, 1, "Const"),
    OpInfo("fclosure", 5, 0, 1, "Const"),
    OpInfo("push_atom_value", 5, 0, 1, "Atom"),
    OpInfo("private_symbol", 5, 0, 1, "Atom"),
    OpInfo("undefined", 1, 0, 1, "None"),
    OpInfo("null", 1, 0, 1, "None"),
    OpInfo("push_this", 1, 0, 1, "None"),
    OpInfo("push_false", 1, 0, 1, "None"),
    OpInfo("push_true", 1, 0, 1, "None"),
    OpInfo("object", 1, 0, 1, "None"),
    OpInfo("special_object", 2, 0, 1, "U8"),
    OpInfo("rest", 3, 0, 1, "U16"),
    OpInfo("drop", 1, 1, 0, "None"),
    OpInfo("nip", 1, 2, 1, "None"),
    OpInfo("nip1", 1, 3, 2, "None"),
    OpInfo("dup", 1, 1, 2, "None"),
    OpInfo("dup1", 1, 2, 3, "None"),
    OpInfo("dup2", 1, 2, 4, "None"),
    OpInfo("dup3", 1, 3, 6, "None"),
    OpInfo("insert2", 1, 2, 3, "None"),
    OpInfo("insert3", 1, 3, 4, "None"),
    OpInfo("insert4", 1, 4, 5, "None"),
    OpInfo("perm3", 1, 3, 3, "None"),
    OpInfo("perm4", 1, 4, 4, "None"),
    OpInfo("perm5", 1, 5, 5, "None"),
    OpInfo("swap", 1, 2, 2, "None"),
    OpInfo("swap2", 1, 4, 4, "None"),
    OpInfo("rot3l", 1, 3, 3, "None"),
    OpInfo("rot3r", 1, 3, 3, "None"),
    OpInfo("rot4l", 1, 4, 4, "None"),
    OpInfo("rot5l", 1, 5, 5, "None"),
    OpInfo("call_constructor", 3, 2, 1, "NPop"),
    OpInfo("call", 3, 1, 1, "NPop"),
    OpInfo("tail_call", 3, 1, 0, "NPop"),
    OpInfo("call_method", 3, 2, 1, "NPop"),
    OpInfo("tail_call_method", 3, 2, 0, "NPop"),
    OpInfo("array_from", 3, 0, 1, "NPop"),
    OpInfo("apply", 3, 3, 1, "U16"),
    OpInfo("return", 1, 1, 0, "None"),
    OpInfo("return_undef", 1, 0, 0, "None"),
    OpInfo("check_ctor_return", 1, 1, 2, "None"),
    OpInfo("check_ctor", 1, 0, 0, "None"),
    OpInfo("check_brand", 1, 2, 2, "None"),
    OpInfo("add_brand", 1, 2, 0, "None"),
    OpInfo("return_async", 1, 1, 0, "None"),
    OpInfo("throw", 1, 1, 0, "None"),
    OpInfo("throw_error", 6, 0, 0, "AtomU8"),
    OpInfo("eval", 5, 1, 1, "NPopU16"),
    OpInfo("apply_eval", 3, 2, 1, "U16"),
    OpInfo("regexp", 1, 2, 1, "None"),
    OpInfo("get_super", 1, 1, 1, "None"),
    OpInfo("import", 1, 1, 1, "None"),
    OpInfo("check_var", 5, 0, 1, "Atom"),
    OpInfo("get_var_undef", 5, 0, 1, "Atom"),
    OpInfo("get_var", 5, 0, 1, "Atom"),
    OpInfo("put_var", 5, 1, 0, "Atom"),
    OpInfo("put_var_init", 5, 1, 0, "Atom"),
    OpInfo("put_var_strict", 5, 2, 0, "Atom"),
    OpInfo("get_ref_value", 1, 2, 3, "None"),
    OpInfo("put_ref_value", 1, 3, 0, "None"),
    OpInfo("define_var", 6, 0, 0, "AtomU8"),
    OpInfo("check_define_var", 6, 0, 0, "AtomU8"),
    OpInfo("define_func", 6, 1, 0, "AtomU8"),
    OpInfo("get_field", 5, 1, 1, "Atom"),
    OpInfo("get_field2", 5, 1, 2, "Atom"),
    OpInfo("put_field", 5, 2, 0, "Atom"),
    OpInfo("get_private_field", 1, 2, 1, "None"),
    OpInfo("put_private_field", 1, 3, 0, "None"),
    OpInfo("define_private_field", 1, 3, 1, "None"),
    OpInfo("get_array_el", 1, 2, 1, "None"),
    OpInfo("get_array_el2", 1, 2, 2, "None"),
    OpInfo("put_array_el", 1, 3, 0, "None"),
    OpInfo("get_super_value", 1, 3, 1, "None"),
    OpInfo("put_super_value", 1, 4, 0, "None"),
    OpInfo("define_field", 5, 2, 1, "Atom"),
    OpInfo("set_name", 5, 1, 1, "Atom"),
    OpInfo("set_name_computed", 1, 2, 2, "None"),
    OpInfo("set_proto", 1, 2, 1, "None"),
    OpInfo("set_home_object", 1, 2, 2, "None"),
    OpInfo("define_array_el", 1, 3, 2, "None"),
    OpInfo("append", 1, 3, 2, "None"),
    OpInfo("copy_data_properties", 2, 3, 3, "U8"),
    OpInfo("define_method", 6, 2, 1, "AtomU8"),
    OpInfo("define_method_computed", 2, 3, 1, "U8"),
    OpInfo("define_class", 6, 2, 2, "AtomU8"),
    OpInfo("define_class_computed", 6, 3, 3, "AtomU8"),
    OpInfo("get_loc", 3, 0, 1, "Loc"),
    OpInfo("put_loc", 3, 1, 0, "Loc"),
    OpInfo("set_loc", 3, 1, 1, "Loc"),
    OpInfo("get_arg", 3, 0, 1, "Arg"),
    OpInfo("put_arg", 3, 1, 0, "Arg"),
    OpInfo("set_arg", 3, 1, 1, "Arg"),
    OpInfo("get_var_ref", 3, 0, 1, "VarRef"),
    OpInfo("put_var_ref", 3, 1, 0, "VarRef"),
    OpInfo("set_var_ref", 3, 1, 1, "VarRef"),
    OpInfo("set_loc_uninitialized", 3, 0, 0, "Loc"),
    OpInfo("get_loc_check", 3, 0, 1, "Loc"),
    OpInfo("put_loc_check", 3, 1, 0, "Loc"),
    OpInfo("put_loc_check_init", 3, 1, 0, "Loc"),
    OpInfo("get_var_ref_check", 3, 0, 1, "VarRef"),
    OpInfo("put_var_ref_check", 3, 1, 0, "VarRef"),
    OpInfo("put_var_ref_check_init", 3, 1, 0, "VarRef"),
    OpInfo("close_loc", 3, 0, 0, "Loc"),
    OpInfo("if_false", 5, 1, 0, "Label"),
    OpInfo("if_true", 5, 1, 0, "Label"),
    OpInfo("goto", 5, 0, 0, "Label"),
    OpInfo("catch", 5, 0, 1, "Label"),
    OpInfo("gosub", 5, 0, 0, "Label"),
    OpInfo("ret", 1, 1, 0, "None"),
    OpInfo("to_object", 1, 1, 1, "None"),
    OpInfo("to_propkey", 1, 1, 1, "None"),
    OpInfo("to_propkey2", 1, 2, 2, "None"),
    OpInfo("with_get_var", 10, 1, 0, "AtomLabelU8"),
    OpInfo("with_put_var", 10, 2, 1, "AtomLabelU8"),
    OpInfo("with_delete_var", 10, 1, 0, "AtomLabelU8"),
    OpInfo("with_make_ref", 10, 1, 0, "AtomLabelU8"),
    OpInfo("with_get_ref", 10, 1, 0, "AtomLabelU8"),
    OpInfo("with_get_ref_undef", 10, 1, 0, "AtomLabelU8"),
    OpInfo("make_loc_ref", 7, 0, 2, "AtomU16"),
    OpInfo("make_arg_ref", 7, 0, 2, "AtomU16"),
    OpInfo("make_var_ref_ref", 7, 0, 2, "AtomU16"),
    OpInfo("make_var_ref", 5, 0, 2, "Atom"),
    OpInfo("for_in_start", 1, 1, 1, "None"),
    OpInfo("for_of_start", 1, 1, 3, "None"),
    OpInfo("for_await_of_start", 1, 1, 3, "None"),
    OpInfo("for_in_next", 1, 1, 3, "None"),
    OpInfo("for_of_next", 2, 3, 5, "U8"),
    OpInfo("iterator_check_object", 1, 1, 1, "None"),
    OpInfo("iterator_get_value_done", 1, 1, 2, "None"),
    OpInfo("iterator_close", 1, 3, 0, "None"),
    OpInfo("iterator_close_return", 1, 4, 4, "None"),
    OpInfo("iterator_next", 1, 4, 4, "None"),
    OpInfo("iterator_call", 2, 4, 5, "U8"),
    OpInfo("initial_yield", 1, 0, 0, "None"),
    OpInfo("yield", 1, 1, 2, "None"),
    OpInfo("yield_star", 1, 1, 2, "None"),
    OpInfo("async_yield_star", 1, 1, 2, "None"),
    OpInfo("await", 1, 1, 1, "None"),
    OpInfo("neg", 1, 1, 1, "None"),
    OpInfo("plus", 1, 1, 1, "None"),
    OpInfo("dec", 1, 1, 1, "None"),
    OpInfo("inc", 1, 1, 1, "None"),
    OpInfo("post_dec", 1, 1, 2, "None"),
    OpInfo("post_inc", 1, 1, 2, "None"),
    OpInfo("dec_loc", 2, 0, 0, "Loc8"),
    OpInfo("inc_loc", 2, 0, 0, "Loc8"),
    OpInfo("add_loc", 2, 1, 0, "Loc8"),
    OpInfo("not", 1, 1, 1, "None"),
    OpInfo("lnot", 1, 1, 1, "None"),
    OpInfo("typeof", 1, 1, 1, "None"),
    OpInfo("delete", 1, 2, 1, "None"),
    OpInfo("delete_var", 5, 0, 1, "Atom"),
    OpInfo("mul", 1, 2, 1, "None"),
    OpInfo("div", 1, 2, 1, "None"),
    OpInfo("mod", 1, 2, 1, "None"),
    OpInfo("add", 1, 2, 1, "None"),
    OpInfo("sub", 1, 2, 1, "None"),
    OpInfo("pow", 1, 2, 1, "None"),
    OpInfo("shl", 1, 2, 1, "None"),
    OpInfo("sar", 1, 2, 1, "None"),
    OpInfo("shr", 1, 2, 1, "None"),
    OpInfo("lt", 1, 2, 1, "None"),
    OpInfo("lte", 1, 2, 1, "None"),
    OpInfo("gt", 1, 2, 1, "None"),
    OpInfo("gte", 1, 2, 1, "None"),
    OpInfo("instanceof", 1, 2, 1, "None"),
    OpInfo("in", 1, 2, 1, "None"),
    OpInfo("eq", 1, 2, 1, "None"),
    OpInfo("neq", 1, 2, 1, "None"),
    OpInfo("strict_eq", 1, 2, 1, "None"),
    OpInfo("strict_neq", 1, 2, 1, "None"),
    OpInfo("and", 1, 2, 1, "None"),
    OpInfo("xor", 1, 2, 1, "None"),
    OpInfo("or", 1, 2, 1, "None"),
    OpInfo("is_undefined_or_null", 1, 1, 1, "None"),
    OpInfo("nop", 1, 0, 0, "None"),
    OpInfo("push_minus1", 1, 0, 1, "NoneInt"),
    OpInfo("push_0", 1, 0, 1, "NoneInt"),
    OpInfo("push_1", 1, 0, 1, "NoneInt"),
    OpInfo("push_2", 1, 0, 1, "NoneInt"),
    OpInfo("push_3", 1, 0, 1, "NoneInt"),
    OpInfo("push_4", 1, 0, 1, "NoneInt"),
    OpInfo("push_5", 1, 0, 1, "NoneInt"),
    OpInfo("push_6", 1, 0, 1, "NoneInt"),
    OpInfo("push_7", 1, 0, 1, "NoneInt"),
    OpInfo("push_i8", 2, 0, 1, "I8"),
    OpInfo("push_i16", 3, 0, 1, "I16"),
    OpInfo("push_const8", 2, 0, 1, "Const8"),
    OpInfo("fclosure8", 2, 0, 1, "Const8"),
    OpInfo("push_empty_string", 1, 0, 1, "None"),
    OpInfo("get_loc8", 2, 0, 1, "Loc8"),
    OpInfo("put_loc8", 2, 1, 0, "Loc8"),
    OpInfo("set_loc8", 2, 1, 1, "Loc8"),
    OpInfo("get_loc0", 1, 0, 1, "NoneLoc"),
    OpInfo("get_loc1", 1, 0, 1, "NoneLoc"),
    OpInfo("get_loc2", 1, 0, 1, "NoneLoc"),
    OpInfo("get_loc3", 1, 0, 1, "NoneLoc"),
    OpInfo("put_loc0", 1, 1, 0, "NoneLoc"),
    OpInfo("put_loc1", 1, 1, 0, "NoneLoc"),
    OpInfo("put_loc2", 1, 1, 0, "NoneLoc"),
    OpInfo("put_loc3", 1, 1, 0, "NoneLoc"),
    OpInfo("set_loc0", 1, 1, 1, "NoneLoc"),
    OpInfo("set_loc1", 1, 1, 1, "NoneLoc"),
    OpInfo("set_loc2", 1, 1, 1, "NoneLoc"),
    OpInfo("set_loc3", 1, 1, 1, "NoneLoc"),
    OpInfo("get_arg0", 1, 0, 1, "NoneArg"),
    OpInfo("get_arg1", 1, 0, 1, "NoneArg"),
    OpInfo("get_arg2", 1, 0, 1, "NoneArg"),
    OpInfo("get_arg3", 1, 0, 1, "NoneArg"),
    OpInfo("put_arg0", 1, 1, 0, "NoneArg"),
    OpInfo("put_arg1", 1, 1, 0, "NoneArg"),
    OpInfo("put_arg2", 1, 1, 0, "NoneArg"),
    OpInfo("put_arg3", 1, 1, 0, "NoneArg"),
    OpInfo("set_arg0", 1, 1, 1, "NoneArg"),
    OpInfo("set_arg1", 1, 1, 1, "NoneArg"),
    OpInfo("set_arg2", 1, 1, 1, "NoneArg"),
    OpInfo("set_arg3", 1, 1, 1, "NoneArg"),
    OpInfo("get_var_ref0", 1, 0, 1, "NoneVarRef"),
    OpInfo("get_var_ref1", 1, 0, 1, "NoneVarRef"),
    OpInfo("get_var_ref2", 1, 0, 1, "NoneVarRef"),
    OpInfo("get_var_ref3", 1, 0, 1, "NoneVarRef"),
    OpInfo("put_var_ref0", 1, 1, 0, "NoneVarRef"),
    OpInfo("put_var_ref1", 1, 1, 0, "NoneVarRef"),
    OpInfo("put_var_ref2", 1, 1, 0, "NoneVarRef"),
    OpInfo("put_var_ref3", 1, 1, 0, "NoneVarRef"),
    OpInfo("set_var_ref0", 1, 1, 1, "NoneVarRef"),
    OpInfo("set_var_ref1", 1, 1, 1, "NoneVarRef"),
    OpInfo("set_var_ref2", 1, 1, 1, "NoneVarRef"),
    OpInfo("set_var_ref3", 1, 1, 1, "NoneVarRef"),
    OpInfo("get_length", 1, 1, 1, "None"),
    OpInfo("if_false8", 2, 1, 0, "Label8"),
    OpInfo("if_true8", 2, 1, 0, "Label8"),
    OpInfo("goto8", 2, 0, 0, "Label8"),
    OpInfo("goto16", 3, 0, 0, "Label16"),
    OpInfo("call0", 1, 1, 1, "NPopX"),
    OpInfo("call1", 1, 1, 1, "NPopX"),
    OpInfo("call2", 1, 1, 1, "NPopX"),
    OpInfo("call3", 1, 1, 1, "NPopX"),
    OpInfo("is_undefined", 1, 1, 1, "None"),
    OpInfo("is_null", 1, 1, 1, "None"),
    OpInfo("typeof_is_undefined", 1, 1, 1, "None"),
    OpInfo("typeof_is_function", 1, 1, 1, "None")
>>

\* slice.get(i) of a table: Some(entry) or None
opcode_info_v1(op) == IF op < Len(OPCODE_INFO_V1) THEN OPCODE_INFO_V1[op + 1] ELSE None

v1_fmt_to_current(fmt) ==
    CASE fmt = "None" -> "NONE"
      [] fmt = "NoneInt" -> "NONE_INT"
      [] fmt = "NoneLoc" -> "NONE_LOC"
      [] fmt = "NoneArg" -> "NONE_ARG"
      [] fmt = "NoneVarRef" -> "NONE_VAR_REF"
      [] fmt = "U8" -> "U8"
      [] fmt = "I8" -> "I8"
      [] fmt = "Loc8" -> "LOC8"
      [] fmt = "Const8" -> "CONST8"
      [] fmt = "Label8" -> "LABEL8"
      [] fmt = "U16" -> "U16"
      [] fmt = "I16" -> "I16"
      [] fmt = "Label16" -> "LABEL16"
      [] fmt = "NPop" -> "NPOP"
      [] fmt = "NPopX" -> "NPOPX"
      [] fmt = "NPopU16" -> "NPOP_U16"
      [] fmt = "Loc" -> "LOC"
      [] fmt = "Arg" -> "ARG"
      [] fmt = "VarRef" -> "VAR_REF"
      [] fmt = "U32" -> "U32"
      [] fmt = "I32" -> "I32"
      [] fmt = "Const" -> "CONST"
      [] fmt = "Label" -> "LABEL"
      [] fmt = "Atom" -> "ATOM"
      [] fmt = "AtomU8" -> "ATOM_U8"
      [] fmt = "AtomU16" -> "ATOM_U16"
      [] fmt = "AtomLabelU8" -> "ATOM_LABEL_U8"
      [] fmt = "AtomLabelU16" -> "ATOM_LABEL_U16"
      [] fmt = "LabelU16" -> "LABEL_U16"

\* an operand: its variant and up to three fields
Operand(k, a, b, c) == [k |-> k, a |-> a, b |-> b, c |-> c]

\* LittleEndian::read_u16 / read_u32 / read_i32 of args[i..] (i from 0)
read_u16(args, i) == args[i + 1] + 256 * args[i + 2]
read_u32(args, i) ==
    args[i + 1] + 256 * args[i + 2] + 65536 * args[i + 3] + 16777216 * args[i + 4]
read_i32(args, i) ==
    args[i + 1] + 256 * args[i + 2] + 65536 * args[i + 3]
    + 16777216 * (IF args[i + 4] >= 128 THEN args[i + 4] - 256 ELSE args[i + 4])

\* A u32 label offset is kept as its 32-bit pattern: a negative number n
\* stands for the u32 value n + 2^32.
read_label_u32(args, i) == read_i32(args, i)

\* the decimal text of a u32 kept as its 32-bit pattern
U32Text(n) ==
    IF n >= 0 THEN ToString(n)
    ELSE LET s == 67296 + n
             lo == s % 100000
             pad == IF lo < 10 THEN "0000" ELSE IF lo < 100 THEN "000"
                    ELSE IF lo < 1000 THEN "00" ELSE IF lo < 10000 THEN "0" ELSE ""
         IN ToString(42949 + (s \div 100000)) \o pad \o ToString(lo)

\* `x as i8`, `x as i16`
AsI8(x) == IF x >= 128 THEN x - 256 ELSE x
AsI16(x) == IF x >= 32768 THEN x - 65536 ELSE x

\* the operand bytes an operand format indexes; a shorter args slice panics
OperandBytes(fmt) ==
    CASE fmt \in {"NONE", "NONE_INT", "NONE_LOC", "NONE_ARG", "NONE_VAR_REF", "NPOPX"} -> 0
      [] fmt \in {"U8", "I8", "LABEL8", "CONST8", "LOC8"} -> 1
      [] fmt \in {"U16", "LOC", "ARG", "VAR_REF", "NPOP", "I16", "LABEL16"} -> 2
      [] fmt \in {"NPOP_U16", "I32", "U32", "LABEL", "CONST", "ATOM"} -> 4
      [] fmt = "ATOM_U8" -> 5
      [] fmt \in {"LABEL_U16", "ATOM_U16"} -> 6
      [] fmt = "U32X2" -> 8
      [] fmt = "ATOM_LABEL_U8" -> 9
      [] fmt = "ATOM_LABEL_U16" -> 10

\* the `match info.fmt` of both decoders, on the current format names
decode_operand(fmt, args) ==
    CASE fmt \in {"NONE", "NONE_INT", "NONE_LOC", "NONE_ARG", "NONE_VAR_REF", "NPOPX"} -> None
      [] fmt = "U8" -> Operand("U8", args[1], 0, 0)
      [] fmt = "I8" -> Operand("I8", AsI8(args[1]), 0, 0)
      [] fmt \in {"U16", "LOC", "ARG", "VAR_REF"} -> Operand("U16", read_u16(args, 0), 0, 0)
      [] fmt = "NPOP" -> Operand("NPop", read_u16(args, 0), 0, 0)
      [] fmt = "NPOP_U16" -> Operand("NPopU16", read_u16(args, 0), read_u16(args, 2), 0)
      [] fmt = "I16" -> Operand("I16", AsI16(read_u16(args, 0)), 0, 0)
      [] fmt = "LABEL8" -> Operand("Label", AsI8(args[1]), 0, 0)
      [] fmt = "LABEL16" -> Operand("Label", AsI16(read_u16(args, 0)), 0, 0)
      [] fmt = "I32" -> Operand("I32", read_i32(args, 0), 0, 0)
      [] fmt = "U32" -> Operand("U32", read_u32(args, 0), 0, 0)
      [] fmt = "U32X2" -> Operand("U32x2", read_u32(args, 0), read_u32(args, 4), 0)
      [] fmt = "LABEL" -> Operand("LabelAbs", read_label_u32(args, 0), 0, 0)
      [] fmt = "LABEL_U16" ->
            Operand("LabelU16", read_label_u32(args, 0), read_u16(args, 4), 0)
      [] fmt = "CONST8" -> Operand("Const", args[1], 0, 0)
      [] fmt = "CONST" -> Operand("Const", read_u32(args, 0), 0, 0)
      [] fmt = "ATOM" -> Operand("Atom", read_u32(args, 0), 0, 0)
      [] fmt = "ATOM_U8" -> Operand("AtomU8", read_u32(args, 0), args[5], 0)
      [] fmt = "ATOM_U16" -> Operand("AtomU16", read_u32(args, 0), read_u16(args, 4), 0)
      [] fmt = "ATOM_LABEL_U8" ->
            Operand("AtomLabelU8", read_u32(args, 0), read_u32(args, 4), args[9])
      [] fmt = "ATOM_LABEL_U16" ->
            Operand("AtomLabelU16", read_u32(args, 0), read_u32(args, 4), read_u16(args, 8))
      [] fmt = "LOC8" -> Operand("U8", args[1], 0, 0)

Instr(pc, op, info, fmt, operand) ==
    [pc |-> pc, op |-> op, name |-> info.name, size |-> info.size, fmt |-> fmt,
     operand |-> operand, n_pop |-> info.n_pop, n_push |-> info.n_push]

\* decode_step reporting one byte less than remains
decode_step_short_remaining(bytecode, pc, info, fmt) ==
    IF info = None THEN Err(InvalidOpcode(bytecode[pc + 1]))
    ELSE IF Len(bytecode) - pc < info.size
    THEN Err(TruncatedOpcode(pc, info.size, Len(bytecode) - pc - 1))
    ELSE LET args == SubSeq(bytecode, pc + 2, pc + info.size) IN
         IF info.size = 0 \/ Len(args) < OperandBytes(fmt) THEN Panic
         ELSE Ok(Instr(pc, bytecode[pc + 1], info, fmt, decode_operand(fmt, args)))

\* the loop both decoders run, over the descriptor `info` of the opcode at
\* pc and its format in the current naming
decode_step(bytecode, pc, info, fmt) ==
    IF info = None THEN Err(InvalidOpcode(bytecode[pc + 1]))
    ELSE IF Len(bytecode) - pc < info.size
    THEN Err(TruncatedOpcode(pc, info.size, Len(bytecode) - pc))
    ELSE LET args == SubSeq(bytecode, pc + 2, pc + info.size) IN
         IF info.size = 0 \/ Len(args) < OperandBytes(fmt) THEN Panic
         ELSE Ok(Instr(pc, bytecode[pc + 1], info, fmt, decode_operand(fmt, args)))

RECURSIVE decode_loop_v1(_, _, _)
decode_loop_v1(bytecode, pc, out) ==
    IF pc >= Len(bytecode) THEN Ok(out)
    ELSE LET info == Call("opcode_info_v1", <<bytecode[pc + 1]>>)
             i == Call("decode_step", <<bytecode, pc, info,
                              IF info = None THEN "NONE" ELSE v1_fmt_to_current(info.fmt)>>) IN
         IF ~i.ok THEN i ELSE decode_loop_v1(bytecode, pc + i.v.size, Append(out, i.v))

decode_instructions_v1(b) == decode_loop_v1(b.bytecode, 0, <<>>)

\* The current table is generated when the crate is built, from the opcode
\* header of the engine.  OpcodeHeader is a short header of the same shape:
\* DEF entries up to nop, the temporary (def) entries after it, then the
\* short opcodes.  The last field tells a def entry from a DEF entry.
HeaderOp(name, size, n_pop, n_push, fmt, is_temp) ==
    [name |-> name, size |-> size, n_pop |-> n_pop, n_push |-> n_push, fmt |-> fmt,
     is_temp |-> is_temp]

OpcodeHeader == <<
    HeaderOp("invalid", 1, 0, 0, "NONE", FALSE),
    HeaderOp("push_i32", 5, 0, 1, "I32", FALSE),
    HeaderOp("push_const", 5, 0, 1, "CONST", FALSE),
    HeaderOp("fclosure", 5, 0, 1, "CONST", FALSE),
    HeaderOp("push_atom_value", 5, 0, 1, "ATOM", FALSE),
    HeaderOp("undefined", 1, 0, 1, "NONE", FALSE),
    HeaderOp("push_true", 1, 0, 1, "NONE", FALSE),
    HeaderOp("drop", 1, 1, 0, "NONE", FALSE),
    HeaderOp("get_var", 5, 0, 1, "ATOM", FALSE),
    HeaderOp("put_var", 5, 1, 0, "ATOM", FALSE),
    HeaderOp("get_field", 5, 1, 1, "ATOM", FALSE),
    HeaderOp("put_field", 5, 2, 0, "ATOM", FALSE),
    HeaderOp("define_field", 5, 2, 1, "ATOM", FALSE),
    HeaderOp("if_false", 5, 1, 0, "LABEL", FALSE),
    HeaderOp("goto", 5, 0, 0, "LABEL", FALSE),
    HeaderOp("return", 1, 1, 0, "NONE", FALSE),
    HeaderOp("return_undef", 1, 0, 0, "NONE", FALSE),
    HeaderOp("nop", 1, 0, 0, "NONE", FALSE),
    HeaderOp("enter_scope", 3, 0, 0, "U16", TRUE),
    HeaderOp("leave_scope", 3, 0, 0, "U16", TRUE),
    HeaderOp("push_minus1", 1, 0, 1, "NONE_INT", FALSE),
    HeaderOp("push_0", 1, 0, 1, "NONE_INT", FALSE),
    HeaderOp("push_i8", 2, 0, 1, "I8", FALSE),
    HeaderOp("get_loc0", 1, 0, 1, "NONE_LOC", FALSE)
>>

\* the tables the build script writes from the header
OPCODE_INFO ==
    [i \in 1..Len(OpcodeHeader) |->
        OpInfo(OpcodeHeader[i].name, OpcodeHeader[i].size, OpcodeHeader[i].n_pop,
               OpcodeHeader[i].n_push, OpcodeHeader[i].fmt)]

OP_TEMP_START ==
    (CHOOSE i \in 1..Len(OpcodeHeader) :
        /\ ~OpcodeHeader[i].is_temp /\ OpcodeHeader[i].name = "nop"
        /\ \A j \in 1..(i - 1) : OpcodeHeader[j].is_temp \/ OpcodeHeader[j].name # "nop")

OP_TEMP_COUNT == Cardinality({i \in 1..Len(OpcodeHeader) : OpcodeHeader[i].is_temp})

opcode_info(op) ==
    LET idx == IF op >= OP_TEMP_START THEN op + OP_TEMP_COUNT ELSE op IN
    IF idx < Len(OPCODE_INFO) THEN OPCODE_INFO[idx + 1] ELSE None

\* Some((n_pop, n_push)) or None
opcode_stack_effect(op) ==
    LET i == Call("opcode_info", <<op>>) IN
    IF i = None THEN None ELSE Some(<<i.n_pop, i.n_push>>)

RECURSIVE decode_loop(_, _, _)
decode_loop(bytecode, pc, out) ==
    IF pc >= Len(bytecode) THEN Ok(out)
    ELSE LET info == Call("opcode_info", <<bytecode[pc + 1]>>)
             i == Call("decode_step", <<bytecode, pc, info, IF info = None THEN "NONE" ELSE info.fmt>>) IN
         IF ~i.ok THEN i ELSE decode_loop(bytecode, pc + i.v.size, Append(out, i.v))

decode_instructions(b) == decode_loop(b.bytecode, 0, <<>>)

\* (pc + 1) as u32 .checked_add(rel): an offset of 2^31 or more (kept as a
\* negative number) overflows exactly when the wrapped sum is not negative;
\* a sum that stays below 2^32 is a target beyond every 31-bit position.
checked_add_u32(base, rel) ==
    IF rel >= 0 THEN Some(base + rel)
    ELSE IF base + rel >= 0 THEN None ELSE Some(2147483647)

\* Option<usize>: the branch target of an instruction.  The sums are taken
\* in i32 for Label and with checked_add in u32 for the other variants.
label_target(i) ==
    IF i.operand = None THEN None
    ELSE CASE i.operand.k = "Label" ->
                 LET t == i.pc + 1 + i.operand.a IN IF t < 0 THEN None ELSE Some(t)
           [] i.operand.k \in {"LabelAbs", "LabelU16"} ->
                 checked_add_u32(i.pc + 1, i.operand.a)
           [] i.operand.k \in {"AtomLabelU8", "AtomLabelU16"} -> Some(i.pc + 5 + i.operand.b)
           [] OTHER -> None

\* ------------------------------------------------------------------------
\* Text: Display of atoms and values, names
\* ------------------------------------------------------------------------

\* str::starts_with, str::ends_with, the i-th character, the tail from k
StartsWith(s, pre) == Len(s) >= Len(pre) /\ SubSeq(s, 1, Len(pre)) = pre
EndsWith(s, suf) == Len(s) >= Len(suf) /\ SubSeq(s, Len(s) - Len(suf) + 1, Len(s)) = suf
CharAt(s, i) == SubSeq(s, i, i)
Skip(s, k) == SubSeq(s, k + 1, Len(s))

DigitChars == "0123456789"
DigitVal(c) == (CHOOSE i \in 1..10 : CharAt(DigitChars, i) = c) - 1
IsDigit(c) == \E i \in 1..10 : CharAt(DigitChars, i) = c
IsAsciiAlphabetic(c) ==
    \/ \E i \in 34..59 : CharAt(AsciiLow, i) = c
    \/ \E i \in 1..26 : CharAt(AsciiHigh, i) = c
IsAsciiAlphanumeric(c) == IsDigit(c) \/ IsAsciiAlphabetic(c)

\* n.chars().skip(k).all(|c| c.is_ascii_digit())
AllDigitsFrom(s, k) == \A i \in (k + 1)..Len(s) : IsDigit(CharAt(s, i))

\* the digits of s without leading zeros ("0" for zero)
RECURSIVE StripZeros(_)
StripZeros(s) == IF Len(s) > 1 /\ CharAt(s, 1) = "0" THEN StripZeros(Skip(s, 1)) ELSE s

\* a <= b for digit strings of the same length
RECURSIVE DigitsLeq(_, _)
DigitsLeq(a, b) ==
    IF a = "" THEN TRUE
    ELSE IF DigitVal(CharAt(a, 1)) # DigitVal(CharAt(b, 1))
         THEN DigitVal(CharAt(a, 1)) < DigitVal(CharAt(b, 1))
         ELSE DigitsLeq(Skip(a, 1), Skip(b, 1))

\* str::parse of an unsigned type whose maximum is written max: an optional
\* '+', then digits, no overflow.  Some(the number in decimal) or None.
ParseUnsigned(s, max) ==
    LET d == IF StartsWith(s, "+") THEN Skip(s, 1) ELSE s
        z == StripZeros(d) IN
    IF d = "" \/ ~AllDigitsFrom(d, 0) THEN None
    ELSE IF Len(z) > Len(max) \/ (Len(z) = Len(max) /\ ~DigitsLeq(z, max)) THEN None
    ELSE Some(z)

\* a decimal of at most 9 digits as a number
RECURSIVE DecimalValue(_)
DecimalValue(z) ==
    IF z = "" THEN 0
    ELSE DecimalValue(SubSeq(z, 1, Len(z) - 1)) * 10 + DigitVal(CharAt(z, Len(z)))

\* the names of the generated table BUILTIN_ATOMS; the atom header of the
\* engine opens with the names the legacy list opens with
BUILTIN_ATOMS == [i \in 1..BuiltinAtomsLen |-> LEGACY_V1_ATOMS[i]]

\* impl Display for AtomRepr
AtomToString(a) ==
    CASE a.t = "Null" -> "<null>"
      [] a.t = "Builtin" ->
            LET idx == IF a.id = 0 THEN 0 ELSE a.id - 1 IN
            IF a.id # 0 /\ idx < Len(BUILTIN_ATOMS) THEN BUILTIN_ATOMS[idx + 1]
            ELSE "<atom:" \o ToString(a.id) \o ">"
      [] a.t = "String" -> a.s
      [] a.t = "Symbol" -> "<sym:" \o ToString(a.typ) \o ":" \o a.desc \o ">"
      [] a.t = "TaggedInt" -> "<int:" \o ToString(a.v) \o ">"
      [] a.t = "Raw" -> "<atom:" \o ToString(a.v) \o ">"

\* Display of an f64, kept as its eight bytes: +0.0 prints as 0, any other
\* bit pattern as a token of its bytes
RECURSIVE BytesText(_)
BytesText(bytes) ==
    IF bytes = <<>> THEN ""
    ELSE ToString(Head(bytes)) \o (IF Len(bytes) > 1 THEN "," ELSE "") \o BytesText(Tail(bytes))
F64ToString(bits) ==
    IF \A i \in 1..Len(bits) : bits[i] = 0 THEN "0" ELSE "f64(" \o BytesText(bits) \o ")"

\* impl Display for Value
ValueToString(v) ==
    CASE v.k = "Null" -> "null"
      [] v.k = "Undefined" -> "undefined"
      [] v.k = "Bool" -> IF v.b THEN "true" ELSE "false"
      [] v.k = "Int32" -> ToString(v.v)
      [] v.k = "Float64" -> F64ToString(v.bits)
      [] v.k = "String" -> "\"" \o v.s \o "\""
      [] v.k = "Array" -> "<array:" \o ToString(Len(v.items)) \o ">"
      [] v.k = "Object" -> "<object:" \o ToString(Len(v.props)) \o ">"
      [] v.k = "Module" -> "<module:" \o Call("AtomToString", <<v.name>>) \o ">"
      [] v.k = "RegExp" -> "<regexp:" \o v.pattern \o ">"
      [] v.k = "BigInt" -> "<bigint:" \o ToString(Len(v.bytes)) \o " bytes>"
      [] v.k = "Symbol" -> "<symbol:" \o Call("AtomToString", <<v.atom>>) \o ">"
      [] v.k = "ArrayBuffer" -> "<arraybuffer:" \o ToString(Len(v.bytes)) \o " bytes>"
      [] v.k = "TypedArray" ->
            "<typedarray:" \o ToString(v.kind) \o " len=" \o ToString(v.len) \o ">"
      [] v.k = "Date" -> "<date>"
      [] v.k = "Function" -> "<function:" \o Call("AtomToString", <<v.bc.func_name>>) \o ">"
      [] v.k = "Unsupported" -> "<tag:" \o ToString(v.tag) \o ">"

\* display_func_name numbering the closures from 1
display_func_name_from_one(opts, b, idx) ==
    IF opts.deobfuscate /\ b.func_name = AtomNull THEN "closure_" \o ToString(idx + 1)
    ELSE LET name == Call("AtomToString", <<b.func_name>>) IN
         IF StartsWith(name, "<atom:") /\ EndsWith(name, ">") /\ Len(name) >= 7
         THEN LET num == Call("ParseUnsigned", <<SubSeq(name, 7, Len(name) - 1), "4294967295">>) IN
              IF num # None THEN "atom_" \o num.some ELSE name
         ELSE name

display_func_name(opts, b, idx) ==
    IF opts.deobfuscate /\ b.func_name = AtomNull THEN "closure_" \o ToString(idx)
    ELSE LET name == Call("AtomToString", <<b.func_name>>) IN
         IF StartsWith(name, "<atom:") /\ EndsWith(name, ">") /\ Len(name) >= 7
         THEN LET num == Call("ParseUnsigned", <<SubSeq(name, 7, Len(name) - 1), "4294967295">>) IN
              IF num # None THEN "atom_" \o num.some ELSE name
         ELSE name

RECURSIVE sanitize_chars(_, _)
sanitize_chars(s, i) ==
    IF i > Len(s) THEN ""
    ELSE LET ch == CharAt(s, i)
             ok == IF i = 1 THEN ch = "_" \/ ch = "$" \/ IsAsciiAlphabetic(ch)
                   ELSE ch = "_" \/ ch = "$" \/ IsAsciiAlphanumeric(ch) IN
         (IF ok THEN ch ELSE "_") \o sanitize_chars(s, i + 1)

sanitize_ident(s) == IF s = "" THEN "_" ELSE sanitize_chars(s, 1)

arg_name(b, idx) ==
    IF idx < Len(b.locals) THEN Call("AtomToString", <<b.locals[idx + 1].name>>)
    ELSE "arg" \o ToString(idx)

loc_name(b, idx) == "loc" \o ToString(idx)

var_ref_name(b, idx) ==
    IF idx < Len(b.closure_vars)
    THEN LET a == b.closure_vars[idx + 1].name
             s == sanitize_ident(Call("AtomToString", <<a>>)) IN
         IF a # AtomNull /\ s # "_" THEN s ELSE "var_ref" \o ToString(idx)
    ELSE "var_ref" \o ToString(idx)

closure_name(deobfuscate, b, idx) ==
    IF idx < Len(b.cpool) /\ b.cpool[idx + 1].k = "Function"
    THEN display_func_name([mode |-> "Pseudo", version |-> "Legacy",
                            deobfuscate |-> deobfuscate, optimize |-> FALSE],
                           b.cpool[idx + 1].bc, idx)
    ELSE "<fclosure" \o ToString(idx) \o ">"

\* ------------------------------------------------------------------------
\* Control-flow graph
\* ------------------------------------------------------------------------

\* instrs.get(idx + 1) as the set of its pc (idx from 1 here)
NextPc(instrs, i) == IF i < Len(instrs) THEN {instrs[i + 1].pc} ELSE {}

Leaders(instrs) ==
    (IF instrs = <<>> THEN {} ELSE {instrs[1].pc})
    \cup UNION {IF Call("label_target", <<instrs[i]>>) # None
                THEN {Call("label_target", <<instrs[i]>>).some} \cup NextPc(instrs, i)
                ELSE {} : i \in 1..Len(instrs)}
    \cup UNION {IF instrs[i].name \in {"return", "return_undef", "throw"}
                THEN NextPc(instrs, i)
                ELSE {} : i \in 1..Len(instrs)}

\* a BTreeSet in iteration order
RECURSIVE SortedSeq(_)
SortedSeq(S) ==
    IF S = {} THEN <<>>
    ELSE LET m == CHOOSE x \in S : \A y \in S : x <= y IN <<m>> \o SortedSeq(S \ {m})

BasicBlock(start_pc, instrs, succs) ==
    [start_pc |-> start_pc, instrs |-> instrs, succs |-> succs]

\* slice.get(i), i from 0
Get(seq, i) == IF i < Len(seq) THEN Some(seq[i + 1]) ELSE None

\* position (from 0) of a leader in the ordered leader list
BlockOf(leader_list, pc) == (CHOOSE i \in 1..Len(leader_list) : leader_list[i] = pc) - 1

\* the loop that distributes the instructions over the blocks
RECURSIVE fill_blocks(_, _, _, _, _, _)
fill_blocks(instrs, i, leader_list, blocks, current_block, next_leader_idx) ==
    IF i > Len(instrs) THEN blocks
    ELSE LET ins == instrs[i]
             hit == Some(ins.pc) = Get(leader_list, next_leader_idx)
             cur == IF hit THEN BlockOf(leader_list, ins.pc) ELSE current_block
             nli == IF hit THEN next_leader_idx + 1 ELSE next_leader_idx IN
         fill_blocks(instrs, i + 1, leader_list,
                     [blocks EXCEPT ![cur + 1].instrs = Append(@, ins)], cur, nli)

\* the successors of block bi (from 1)
Succs(blocks, leader_list, bi) ==
    LET is == blocks[bi].instrs
        fall == IF bi < Len(blocks) THEN <<blocks[bi + 1].start_pc>> ELSE <<>>
        jump(fin) ==
            LET t == Call("label_target", <<fin>>) IN
            IF t # None /\ \E k \in 1..Len(leader_list) : leader_list[k] = t.some
            THEN <<blocks[BlockOf(leader_list, t.some) + 1].start_pc>> ELSE <<>> IN
    IF is = <<>> THEN <<>>
    ELSE LET fin == is[Len(is)] IN
         IF fin.name \in {"goto", "goto8", "goto16"} THEN jump(fin)
         ELSE IF fin.name \in {"if_false", "if_true", "if_false8", "if_true8"}
              THEN jump(fin) \o fall
         ELSE IF fin.name \in {"return", "return_undef", "throw"} THEN <<>>
         ELSE fall

\* build_cfg keeping in every block only the instruction at its leader
build_cfg_leaders_only(instrs) ==
    LET leader_list == SortedSeq(Leaders(instrs)) IN
    [bi \in 1..Len(leader_list) |->
        BasicBlock(leader_list[bi],
                   SelectSeq(instrs, LAMBDA ins : ins.pc = leader_list[bi]), <<>>)]

build_cfg(instrs) ==
    LET leader_list == SortedSeq(Leaders(instrs))
        empty == [i \in 1..Len(leader_list) |-> BasicBlock(leader_list[i], <<>>, <<>>)]
        filled == fill_blocks(instrs, 1, leader_list, empty, 0, 1) IN
    [bi \in 1..Len(filled) |-> [filled[bi] EXCEPT !.succs = Succs(filled, leader_list, bi)]]

\* ------------------------------------------------------------------------
\* Statements
\* ------------------------------------------------------------------------

SExpr(e) == [k |-> "Expr", e |-> e]
SAssign(lhs, rhs) == [k |-> "Assign", lhs |-> lhs, rhs |-> rhs]
SReturn(v) == [k |-> "Return", v |-> v]
SCondGoto(cond, if_false, target) ==
    [k |-> "CondGoto", cond |-> cond, if_false |-> if_false, target |-> target]
SIfElse(cond, then_stmts, else_stmts) ==
    [k |-> "IfElse", cond |-> cond, then_stmts |-> then_stmts, else_stmts |-> else_stmts]
SWhile(cond, body) == [k |-> "While", cond |-> cond, body |-> body]
SGoto(t) == [k |-> "Goto", t |-> t]
SLabel(pc) == [k |-> "Label", pc |-> pc]

\* " ".repeat(n)
RECURSIVE Pad(_)
Pad(n) == IF n = 0 THEN "" ELSE " " \o Pad(n - 1)

RECURSIVE stmts_to_string(_, _)
stmts_to_string(stmts, indent) ==
    IF stmts = <<>> THEN ""
    ELSE LET st == Head(stmts)
             pad == Pad(indent)
             line ==
               CASE st.k = "Expr" -> pad \o st.e \o ";\n"
                 [] st.k = "Assign" -> pad \o st.lhs \o " = " \o st.rhs \o ";\n"
                 [] st.k = "Return" ->
                       IF st.v = None THEN pad \o "return;\n"
                       ELSE pad \o "return " \o st.v.some \o ";\n"
                 [] st.k = "CondGoto" ->
                       IF st.if_false
                       THEN pad \o "if (!" \o st.cond \o ") goto L" \o ToString(st.target) \o ";\n"
                       ELSE pad \o "if (" \o st.cond \o ") goto L" \o ToString(st.target) \o ";\n"
                 [] st.k = "Goto" -> pad \o "goto L" \o ToString(st.t) \o ";\n"
                 [] st.k = "Label" -> pad \o "L" \o ToString(st.pc) \o ":\n"
                 [] st.k = "IfElse" ->
                       pad \o "if (" \o st.cond \o ") {\n"
                       \o stmts_to_string(st.then_stmts, indent + 2)
                       \o (IF st.else_stmts = <<>> THEN pad \o "}\n"
                           ELSE pad \o "} else {\n"
                                \o stmts_to_string(st.else_stmts, indent + 2)
                                \o pad \o "}\n")
                 [] st.k = "While" ->
                       pad \o "while (" \o st.cond \o ") {\n"
                       \o stmts_to_string(st.body, indent + 2)
                       \o pad \o "}\n" IN
         line \o stmts_to_string(Tail(stmts), indent)

\* ------------------------------------------------------------------------
\* Structural recovery and the peephole passes (indices from 1)
\* ------------------------------------------------------------------------

IsGoto(stmts, j) == j <= Len(stmts) /\ stmts[j].k = "Goto"
IsLabel(stmts, j) == j <= Len(stmts) /\ stmts[j].k = "Label"

\* the scan of try_structure_while for the back edge: the first j from
\* `from` holding Goto(loop_pc), or one past the end
RECURSIVE while_scan(_, _, _)
while_scan(stmts, j, loop_pc) ==
    IF j > Len(stmts) THEN j
    ELSE IF stmts[j].k = "Goto" /\ stmts[j].t = loop_pc THEN j
    ELSE while_scan(stmts, j + 1, loop_pc)

\* structure_while_from leaving the body of the loop out of the While
RECURSIVE structure_while_bodiless(_, _, _)
structure_while_bodiless(stmts, i, out) ==
    IF i > Len(stmts) THEN out
    ELSE IF /\ IsLabel(stmts, i)
            /\ i + 1 <= Len(stmts) /\ stmts[i + 1].k = "CondGoto"
            /\ stmts[i + 1].if_false
    THEN LET loop_pc == stmts[i].pc
             end_pc == stmts[i + 1].target
             j == while_scan(stmts, i + 2, loop_pc) IN
         IF /\ IsGoto(stmts, j) /\ IsLabel(stmts, j + 1)
            /\ stmts[j].t = loop_pc /\ stmts[j + 1].pc = end_pc
         THEN structure_while_bodiless(stmts, j + 2, Append(out, SWhile(stmts[i + 1].cond, <<>>)))
         ELSE structure_while_bodiless(stmts, i + 1, Append(out, stmts[i]))
    ELSE structure_while_bodiless(stmts, i + 1, Append(out, stmts[i]))

RECURSIVE structure_while_from(_, _, _)
structure_while_from(stmts, i, out) ==
    IF i > Len(stmts) THEN out
    ELSE IF /\ IsLabel(stmts, i)
            /\ i + 1 <= Len(stmts) /\ stmts[i + 1].k = "CondGoto"
            /\ stmts[i + 1].if_false
    THEN LET loop_pc == stmts[i].pc
             end_pc == stmts[i + 1].target
             j == while_scan(stmts, i + 2, loop_pc) IN
         IF /\ IsGoto(stmts, j) /\ IsLabel(stmts, j + 1)
            /\ stmts[j].t = loop_pc /\ stmts[j + 1].pc = end_pc
         THEN structure_while_from(stmts, j + 2,
                  Append(out, SWhile(stmts[i + 1].cond, SubSeq(stmts, i + 2, j - 1))))
         ELSE structure_while_from(stmts, i + 1, Append(out, stmts[i]))
    ELSE structure_while_from(stmts, i + 1, Append(out, stmts[i]))

try_structure_while(stmts) == structure_while_from(stmts, 1, <<>>)

\* the scan for the end of the then-statements: the first j from `from`
\* holding a Goto or Label(else_pc), or one past the end
RECURSIVE then_scan(_, _, _)
then_scan(stmts, j, else_pc) ==
    IF j > Len(stmts) THEN j
    ELSE IF stmts[j].k = "Goto" THEN j
    ELSE IF stmts[j].k = "Label" /\ stmts[j].pc = else_pc THEN j
    ELSE then_scan(stmts, j + 1, else_pc)

\* the scan for the end of the else-statements: the first k holding
\* Label(end_pc), or one past the end
RECURSIVE else_scan(_, _, _)
else_scan(stmts, k, end_pc) ==
    IF k > Len(stmts) THEN k
    ELSE IF stmts[k].k = "Label" /\ stmts[k].pc = end_pc THEN k
    ELSE else_scan(stmts, k + 1, end_pc)

RECURSIVE structure_if_else_from(_, _, _)
structure_if_else_from(stmts, i, out) ==
    IF i > Len(stmts) THEN out
    ELSE IF stmts[i].k = "CondGoto" /\ IsGoto(stmts, i + 1) /\ stmts[i].if_false
    THEN LET else_pc == stmts[i].target
             j == then_scan(stmts, i + 2, else_pc) IN
         IF IsGoto(stmts, j) /\ IsLabel(stmts, j + 1) /\ stmts[j + 1].pc = else_pc
         THEN LET end_pc == stmts[j].t
                  k == else_scan(stmts, j + 2, end_pc) IN
              IF IsLabel(stmts, k) /\ stmts[k].pc = end_pc
              THEN structure_if_else_from(stmts, k + 1,
                       Append(out, SIfElse(stmts[i].cond, SubSeq(stmts, i + 2, j - 1),
                                           SubSeq(stmts, j + 2, k - 1))))
              ELSE structure_if_else_from(stmts, i + 1, Append(out, stmts[i]))
         ELSE structure_if_else_from(stmts, i + 1, Append(out, stmts[i]))
    ELSE structure_if_else_from(stmts, i + 1, Append(out, stmts[i]))

try_structure_if_else(stmts) == structure_if_else_from(stmts, 1, <<>>)

\* fold_goto_return putting the Return in place of the Goto only: the
\* label and the return after it stay
RECURSIVE fold_goto_return_keep(_, _, _)
fold_goto_return_keep(stmts, i, out) ==
    IF i > Len(stmts) THEN out
    ELSE IF /\ stmts[i].k = "Goto" /\ IsLabel(stmts, i + 1)
            /\ i + 2 <= Len(stmts) /\ stmts[i + 2].k = "Return"
            /\ stmts[i + 1].pc = stmts[i].t
    THEN fold_goto_return_keep(stmts, i + 1, Append(out, SReturn(stmts[i + 2].v)))
    ELSE fold_goto_return_keep(stmts, i + 1, Append(out, stmts[i]))

\* first pass of optimize_stmts: Goto(t), Label(t), Return(r) becomes Return(r)
RECURSIVE fold_goto_return(_, _, _)
fold_goto_return(stmts, i, out) ==
    IF i > Len(stmts) THEN out
    ELSE IF /\ stmts[i].k = "Goto" /\ IsLabel(stmts, i + 1)
            /\ i + 2 <= Len(stmts) /\ stmts[i + 2].k = "Return"
            /\ stmts[i + 1].pc = stmts[i].t
    THEN fold_goto_return(stmts, i + 3, Append(out, SReturn(stmts[i + 2].v)))
    ELSE fold_goto_return(stmts, i + 1, Append(out, stmts[i]))

\* second pass of optimize_stmts: of two equal adjacent labels the first goes
RECURSIVE drop_duplicate_labels(_, _, _)
drop_duplicate_labels(stmts, j, out) ==
    IF j > Len(stmts) THEN out
    ELSE IF IsLabel(stmts, j) /\ IsLabel(stmts, j + 1) /\ stmts[j].pc = stmts[j + 1].pc
    THEN drop_duplicate_labels(stmts, j + 1, out)
    ELSE drop_duplicate_labels(stmts, j + 1, Append(out, stmts[j]))

optimize_stmts(stmts) ==
    drop_duplicate_labels(fold_goto_return(stmts, 1, <<>>), 1, <<>>)

\* ------------------------------------------------------------------------
\* The pseudo emitter: one instruction against the statement list and the
\* symbolic stack of its block.  The arms of the `match ins.name` are
\* grouped in source order; a group answers None when none of its arms
\* takes the instruction.
\* ------------------------------------------------------------------------

EmitState(stmts, stack) == [stmts |-> stmts, stack |-> stack]
Push(st, x) == [st EXCEPT !.stack = Append(@, x)]
Emit(st, x) == [st EXCEPT !.stmts = Append(@, x)]

\* stack.pop().unwrap_or(d) and the stack it leaves
PopOr(st, d) == IF st.stack = <<>> THEN d ELSE st.stack[Len(st.stack)]
Popped(st) ==
    IF st.stack = <<>> THEN st
    ELSE [st EXCEPT !.stack = SubSeq(@, 1, Len(@) - 1)]
RECURSIVE PoppedN(_, _)
PoppedN(st, n) == IF n = 0 THEN st ELSE PoppedN(Call("Popped", <<st>>), n - 1)

\* `if let Some(Operand::K(..)) = ins.operand`
OpIs(ins, kind) == ins.operand # None /\ ins.operand.k = kind

\* the name is pre followed by digits only, and is none of the names in not
Numbered(n, pre, not) == StartsWith(n, pre) /\ n \notin not /\ AllDigitsFrom(n, Len(pre))

\* arms push_i8 .. fclosure8
arms_push(b, atoms, ins, st, deobfuscate) ==
    LET n == ins.name IN
    CASE n = "push_i8" -> Ok(IF OpIs(ins, "I8") THEN Push(st, ToString(ins.operand.a)) ELSE st)
      [] n = "push_i16" -> Ok(IF OpIs(ins, "I16") THEN Push(st, ToString(ins.operand.a)) ELSE st)
      [] n = "push_i32" -> Ok(IF OpIs(ins, "I32") THEN Push(st, ToString(ins.operand.a)) ELSE st)
      [] n = "push_u8" -> Ok(IF OpIs(ins, "U8") THEN Push(st, ToString(ins.operand.a)) ELSE st)
      [] n = "push_u16" -> Ok(IF OpIs(ins, "U16") THEN Push(st, ToString(ins.operand.a)) ELSE st)
      [] n = "push_u32" -> Ok(IF OpIs(ins, "U32") THEN Push(st, ToString(ins.operand.a)) ELSE st)
      [] n = "push_minus1" -> Ok(Push(st, "-1"))
      [] Numbered(n, "push_", {"push_minus1"}) ->
            LET v == Call("ParseUnsigned", <<Skip(n, 5), "2147483647">>) IN
            IF v = None THEN Panic ELSE Ok(Push(st, v.some))
      [] n = "push_true" -> Ok(Push(st, "true"))
      [] n = "push_false" -> Ok(Push(st, "false"))
      [] n = "push_this" -> Ok(Push(st, "this"))
      [] n = "push_empty_string" -> Ok(Push(st, "\"\""))
      [] n = "undefined" -> Ok(Push(st, "undefined"))
      [] n = "null" -> Ok(Push(st, "null"))
      [] n \in {"push_const", "push_const8"} ->
            IF OpIs(ins, "Const")
            THEN LET idx == ins.operand.a IN
                 Ok(Push(st, IF idx < Len(b.cpool) THEN ValueToString(b.cpool[idx + 1])
                             ELSE "<const:" \o ToString(idx) \o ">"))
            ELSE Ok(st)
      [] n = "push_atom_value" ->
            IF OpIs(ins, "Atom")
            THEN LET a == Call("resolve_idx", <<atoms, ins.operand.a>>) IN
                 IF ~a.ok THEN a
                 ELSE Ok(Push(st, IF a.v.t = "String" THEN "\"" \o a.v.s \o "\""
                                  ELSE Call("AtomToString", <<a.v>>)))
            ELSE Ok(st)
      [] n \in {"fclosure", "fclosure8"} ->
            Ok(IF OpIs(ins, "Const")
               THEN Push(st, closure_name(deobfuscate, b, ins.operand.a % 65536))
               ELSE st)
      [] OTHER -> None

\* the index a numbered name carries, parsed as u16: Some(index) or None
NameIndex(n, pre) ==
    LET v == Call("ParseUnsigned", <<Skip(n, Len(pre)), "65535">>) IN
    IF v = None THEN None ELSE Some(DecimalValue(v.some))

\* `name = rhs` recorded as an expression, rhs pushed back when keep
var_ref_store(b, st, idx, keep) ==
    LET rhs == PopOr(st, "<rhs>")
        s1 == Emit(Call("Popped", <<st>>), SExpr(Call("var_ref_name", <<b, idx>>) \o " = " \o rhs)) IN
    IF keep THEN Push(s1, rhs) ELSE s1

\* arms get_loc0_loc1 .. put_var_ref<N>
arms_vars(b, ins, st) ==
    LET n == ins.name
        tag == "<" \o n \o ">" IN
    CASE n = "get_loc0_loc1" -> Ok(Push(Push(st, loc_name(b, 0)), loc_name(b, 1)))
      [] n = "get_arg" -> Ok(IF OpIs(ins, "U16") THEN Push(st, arg_name(b, ins.operand.a)) ELSE st)
      [] n \in {"get_loc", "get_loc_check"} ->
            Ok(IF OpIs(ins, "U16") THEN Push(st, loc_name(b, ins.operand.a)) ELSE st)
      [] Numbered(n, "get_arg", {"get_arg"}) ->
            LET i == Call("NameIndex", <<n, "get_arg">>) IN
            Ok(Push(st, IF i # None THEN arg_name(b, i.some) ELSE tag))
      [] Numbered(n, "get_loc", {"get_loc", "get_loc0_loc1"}) ->
            LET i == Call("NameIndex", <<n, "get_loc">>) IN
            Ok(Push(st, IF i # None THEN loc_name(b, i.some) ELSE tag))
      [] n \in {"get_var_ref", "get_var_ref_check"} ->
            Ok(Push(st, IF OpIs(ins, "U16") THEN Call("var_ref_name", <<b, ins.operand.a>>)
                        ELSE "<get_var_ref>"))
      [] Numbered(n, "get_var_ref", {"get_var_ref", "get_var_ref_check"}) ->
            LET i == Call("NameIndex", <<n, "get_var_ref">>) IN
            Ok(Push(st, IF i # None THEN Call("var_ref_name", <<b, i.some>>) ELSE tag))
      [] n \in {"set_var_ref", "set_var_ref_check"} ->
            IF OpIs(ins, "U16") THEN Ok(var_ref_store(b, st, ins.operand.a, TRUE))
            ELSE LET rhs == PopOr(st, "<rhs>") IN
                 Ok(Push(Emit(Call("Popped", <<st>>), SExpr("<set_var_ref> = " \o rhs)), rhs))
      [] Numbered(n, "set_var_ref", {"set_var_ref", "set_var_ref_check"}) ->
            LET i == Call("NameIndex", <<n, "set_var_ref">>) IN
            Ok(IF i # None THEN var_ref_store(b, st, i.some, TRUE) ELSE Push(st, tag))
      [] n \in {"put_var_ref", "put_var_ref_check", "put_var_ref_check_init"} ->
            IF OpIs(ins, "U16") THEN Ok(var_ref_store(b, st, ins.operand.a, FALSE))
            ELSE Ok(Emit(Call("Popped", <<st>>), SExpr("<put_var_ref> = " \o PopOr(st, "<rhs>"))))
      [] Numbered(n, "put_var_ref",
                  {"put_var_ref", "put_var_ref_check", "put_var_ref_check_init"}) ->
            LET i == Call("NameIndex", <<n, "put_var_ref">>) IN
            Ok(IF i # None THEN var_ref_store(b, st, i.some, FALSE) ELSE Push(st, tag))
      [] OTHER -> None

\* the operator text of a binary opcode
BinaryOps == {"add", "sub", "mul", "div", "mod", "and", "or", "xor", "shl", "sar", "shr",
              "eq", "neq", "strict_eq", "strict_neq", "lt", "lte", "gt", "gte"}
BinaryOpText(n) ==
    CASE n = "add" -> "+" [] n = "sub" -> "-" [] n = "mul" -> "*" [] n = "div" -> "/"
      [] n = "mod" -> "%" [] n = "and" -> "&" [] n = "or" -> "|" [] n = "xor" -> "^"
      [] n = "shl" -> "<<" [] n = "sar" -> ">>" [] n = "shr" -> ">>>" [] n = "eq" -> "=="
      [] n = "neq" -> "!=" [] n = "strict_eq" -> "===" [] n = "strict_neq" -> "!=="
      [] n = "lt" -> "<" [] n = "lte" -> "<=" [] n = "gt" -> ">" [] OTHER -> ">="

\* str::contains
Contains(s, sub) == \E i \in 1..(Len(s) - Len(sub) + 1) : SubSeq(s, i, i + Len(sub) - 1) = sub

\* arms drop .. typeof
arms_stack(b, ins, st) ==
    LET n == ins.name
        len == Len(st.stack)
        s1 == Call("Popped", <<st>>)
        s2 == Call("Popped", <<s1>>) IN
    CASE n = "drop" -> Ok(s1)
      [] n = "dup" -> Ok(IF len > 0 THEN Push(st, st.stack[len]) ELSE st)
      [] n = "swap" ->
            Ok(IF len >= 2
               THEN [st EXCEPT !.stack = [@ EXCEPT ![len] = st.stack[len - 1],
                                                   ![len - 1] = st.stack[len]]]
               ELSE st)
      [] n = "nip" ->
            Ok(IF len >= 2
               THEN [st EXCEPT !.stack = SubSeq(@, 1, len - 2) \o <<st.stack[len]>>]
               ELSE st)
      [] n \in BinaryOps ->
            LET rhs == PopOr(st, "<rhs>")
                lhs == PopOr(s1, "<lhs>") IN
            Ok(Push(s2, "(" \o lhs \o " " \o BinaryOpText(n) \o " " \o rhs \o ")"))
      [] n = "post_inc" ->
            LET val == PopOr(st, "<value>") IN
            Ok(Push(Push(s1, val), val \o " + 1"))
      [] n = "is_undefined" -> Ok(Push(s1, PopOr(st, "<val>") \o " === undefined"))
      [] n = "to_object" -> Ok(Push(s1, "Object(" \o PopOr(st, "<val>") \o ")"))
      [] n = "to_propkey2" ->
            LET val2 == PopOr(st, "<val2>")
                val1 == PopOr(s1, "<val1>") IN
            Ok(Push(Push(s2, "String(" \o val1 \o ")"), "String(" \o val2 \o ")"))
      [] n = "inc_loc" ->
            Ok(IF OpIs(ins, "U8") THEN Emit(st, SExpr(loc_name(b, ins.operand.a) \o "++"))
               ELSE st)
      [] n = "regexp" ->
            LET flags == PopOr(st, "<flags>")
                pattern == PopOr(s1, "<pattern>") IN
            Ok(Push(s2, IF /\ StartsWith(flags, "\"") /\ EndsWith(flags, "\"")
                           /\ Len(flags) < 20 /\ ~Contains(flags, "\\u")
                        THEN "new RegExp(" \o pattern \o ", " \o flags \o ")"
                        ELSE "new RegExp(" \o pattern \o ")"))
      [] n = "in" ->
            LET prop == PopOr(st, "<prop>")
                obj == PopOr(s1, "<obj>") IN
            Ok(Push(s2, "(" \o prop \o " in " \o obj \o ")"))
      [] n = "object" -> Ok(Push(st, "{}"))
      [] n = "special_object" ->
            Ok(Push(st, IF OpIs(ins, "U8")
                        THEN "<special_object_" \o ToString(ins.operand.a) \o ">"
                        ELSE "<special_object>"))
      [] n = "instanceof" ->
            LET constructor == PopOr(st, "<constructor>")
                obj == PopOr(s1, "<obj>") IN
            Ok(Push(s2, "(" \o obj \o " instanceof " \o constructor \o ")"))
      [] n = "typeof" -> Ok(Push(s1, "typeof " \o PopOr(st, "<value>")))
      [] OTHER -> None

HexDigits == "0123456789abcdef"
\* {:02x} of a byte
Hex2(n) == CharAt(HexDigits, (n \div 16) + 1) \o CharAt(HexDigits, (n % 16) + 1)

\* Display of DeqjsError (the #[error] strings)
ErrorToString(e) ==
    CASE e.e = "Eof" -> "unexpected end of input"
      [] e.e = "InvalidVersion" -> "invalid QuickJS bytecode version: " \o ToString(e.n)
      [] e.e = "UnsupportedTag" -> "unsupported tag: " \o ToString(e.n)
      [] e.e = "InvalidSleb128" -> "invalid sleb128"
      [] e.e = "InvalidOpcode" -> "invalid opcode: 0x" \o Hex2(e.n)
      [] e.e = "TruncatedOpcode" ->
            "truncated opcode at pc=" \o ToString(e.pc) \o " (opcode size=" \o ToString(e.size)
            \o ", remaining=" \o ToString(e.remaining) \o ")"
      [] e.e = "InvalidAtomIndex" -> "invalid atom index: " \o ToString(e.n)

\* `match atoms.resolve_idx(idx) { Ok(p) => p.to_string(), Err(e) => { record
\* the comment; "<invalid_atom>" } }`: the state after it and the name
atom_or_comment(atoms, idx, st) ==
    LET r == Call("resolve_idx", <<atoms, idx>>) IN
    IF r.ok THEN [st |-> st, name |-> Call("AtomToString", <<r.v>>)]
    ELSE [st |-> Emit(st, SExpr("// Atom resolution error: " \o ErrorToString(r.err))),
          name |-> "<invalid_atom>"]

\* arms define_field .. lnot
arms_define(b, atoms, ins, st) ==
    LET n == ins.name
        s1 == Call("Popped", <<st>>)
        s2 == Call("Popped", <<s1>>) IN
    CASE n = "define_field" ->
            LET val == PopOr(st, "<value>")
                obj == PopOr(s1, "<obj>") IN
            IF OpIs(ins, "Atom")
            THEN LET r == atom_or_comment(atoms, ins.operand.a, s2) IN
                 Ok(Push(Emit(r.st, SExpr(obj \o "." \o r.name \o " = " \o val)), obj))
            ELSE Ok(Push(Emit(s2, SExpr("<define_field> " \o obj \o " " \o val)),
                         "<define_field>"))
      [] n = "set_name" ->
            LET obj == PopOr(st, "<obj>") IN
            IF OpIs(ins, "Atom")
            THEN LET r == atom_or_comment(atoms, ins.operand.a, s1) IN
                 Ok(Push(Emit(r.st, SExpr(obj \o ".name = \"" \o r.name \o "\"")), obj))
            ELSE Ok(Push(s1, "<set_name>"))
      [] n = "define_class" ->
            LET parent_ctor == PopOr(st, "<parent_ctor>") IN
            IF OpIs(ins, "AtomU8")
            THEN LET r == atom_or_comment(atoms, ins.operand.a, s1) IN
                 Ok(Push(Push(Emit(r.st, SExpr("class " \o r.name \o " extends " \o parent_ctor)),
                              "<ctor>"), "<proto>"))
            ELSE Ok(Push(s1, "<define_class>"))
      [] n = "define_method" ->
            LET method == PopOr(st, "<method>")
                obj == PopOr(s1, "<obj>") IN
            IF OpIs(ins, "AtomU8")
            THEN LET r == atom_or_comment(atoms, ins.operand.a, s2) IN
                 Ok(Push(Emit(r.st, SExpr(obj \o "." \o r.name \o " = " \o method)), obj))
            ELSE Ok(Push(s2, "<define_method>"))
      [] n = "close_loc" ->
            Ok(IF OpIs(ins, "U16") THEN Emit(st, SExpr("close " \o loc_name(b, ins.operand.a)))
               ELSE st)
      [] n = "check_ctor" -> Ok(Emit(st, SExpr("check_ctor")))
      [] n \in {"not", "lnot"} ->
            Ok(Push(s1, "(" \o (IF n = "not" THEN "~" ELSE "!") \o PopOr(st, "<v>") \o ")"))
      [] OTHER -> None

\* args.join(", ")
RECURSIVE Join(_, _)
Join(args, sep) ==
    IF args = <<>> THEN ""
    ELSE IF Len(args) = 1 THEN args[1]
    ELSE args[1] \o sep \o Join(Tail(args), sep)

\* argc pops collected and reversed, then the callee popped and the call pushed
RECURSIVE pop_args(_, _, _)
pop_args(st, argc, args) ==
    IF argc = 0 THEN [st |-> st, args |-> args]
    ELSE pop_args(Call("Popped", <<st>>), argc - 1, <<PopOr(st, "<arg>")>> \o args)

emit_call(st, argc) ==
    LET a == pop_args(st, argc, <<>>)
        func == PopOr(a.st, "<func>") IN
    Push(Call("Popped", <<a.st>>), func \o "(" \o Join(a.args, ", ") \o ")")

\* `match ins.operand { Some(U16(v)) => v, Some(U8(v)) => v as u16, _ => 0 }`
LocOperand(ins) == IF OpIs(ins, "U16") \/ OpIs(ins, "U8") THEN ins.operand.a ELSE 0
ArgOperand(ins) == IF OpIs(ins, "U16") THEN ins.operand.a ELSE 0

\* arms call .. set_arg<N>
arms_call_store(b, ins, st) ==
    LET n == ins.name
        tag == "<" \o n \o ">"
        top == PopOr(st, "<rhs>")
        s1 == Call("Popped", <<st>>) IN
    CASE n \in {"call", "tail_call", "call_method", "tail_call_method", "call_constructor",
                "array_from"} ->
            Ok(IF OpIs(ins, "NPop") THEN emit_call(st, ins.operand.a) ELSE st)
      [] Numbered(n, "call", {"call"}) ->
            LET argc == Call("ParseUnsigned", <<Skip(n, 4), "999999999">>) IN
            IF argc = None THEN Panic ELSE Ok(emit_call(st, DecimalValue(argc.some)))
      [] n \in {"put_loc", "put_loc8"} -> Ok(Emit(s1, SAssign(loc_name(b, LocOperand(ins)), top)))
      [] Numbered(n, "put_loc", {"put_loc", "put_loc8"}) ->
            LET i == Call("NameIndex", <<n, "put_loc">>) IN
            Ok(IF i # None THEN Emit(s1, SAssign(loc_name(b, i.some), top)) ELSE Push(st, tag))
      [] n = "put_loc_check" ->
            Ok(IF OpIs(ins, "U16") THEN Emit(s1, SAssign(loc_name(b, ins.operand.a), top))
               ELSE st)
      [] n \in {"set_loc", "set_loc8"} -> Ok(Emit(st, SAssign(loc_name(b, LocOperand(ins)), top)))
      [] n = "set_loc_uninitialized" ->
            Ok(IF OpIs(ins, "U16")
               THEN Emit(st, SExpr(loc_name(b, ins.operand.a) \o " = undefined"))
               ELSE st)
      [] Numbered(n, "set_loc", {"set_loc", "set_loc8"}) ->
            LET i == Call("NameIndex", <<n, "set_loc">>) IN
            Ok(IF i # None THEN Emit(st, SAssign(loc_name(b, i.some), top)) ELSE Push(st, tag))
      [] n = "put_arg" -> Ok(Emit(s1, SAssign(arg_name(b, ArgOperand(ins)), top)))
      [] Numbered(n, "put_arg", {"put_arg"}) ->
            LET i == Call("NameIndex", <<n, "put_arg">>) IN
            Ok(IF i # None THEN Emit(s1, SAssign(arg_name(b, i.some), top)) ELSE Push(st, tag))
      [] n = "set_arg" -> Ok(Emit(st, SAssign(arg_name(b, ArgOperand(ins)), top)))
      [] Numbered(n, "set_arg", {"set_arg"}) ->
            LET i == Call("NameIndex", <<n, "set_arg">>) IN
            Ok(IF i # None THEN Emit(st, SAssign(arg_name(b, i.some), top)) ELSE Push(st, tag))
      [] OTHER -> None

\* label_target(ins).unwrap_or(0)
TargetOr0(ins) == LET t == Call("label_target", <<ins>>) IN IF t = None THEN 0 ELSE t.some

\* arms get_var .. insert4
arms_access(atoms, ins, st) ==
    LET n == ins.name
        s1 == Call("Popped", <<st>>)
        s2 == Call("Popped", <<s1>>)
        s3 == Call("Popped", <<s2>>)
        s4 == Call("Popped", <<s3>>)
        r == Call("resolve_idx", <<atoms, ins.operand.a>>) IN
    CASE n \in {"get_var", "get_var_undef"} ->
            IF ~OpIs(ins, "Atom") THEN Ok(st)
            ELSE IF ~r.ok THEN r
            ELSE Ok(Push(st, Call("AtomToString", <<r.v>>)))
      [] n \in {"put_var", "put_var_init"} ->
            IF ~OpIs(ins, "Atom") THEN Ok(s1)
            ELSE IF ~r.ok THEN r
            ELSE Ok(Emit(s1, SAssign(Call("AtomToString", <<r.v>>), PopOr(st, "<rhs>"))))
      [] n \in {"get_field", "get_field2"} ->
            IF ~OpIs(ins, "Atom") THEN Ok(st)
            ELSE IF ~r.ok THEN r
            ELSE Ok(Push(s1, PopOr(st, "<obj>") \o "." \o Call("AtomToString", <<r.v>>)))
      [] n = "put_field" ->
            IF ~OpIs(ins, "Atom") THEN Ok(s2)
            ELSE IF ~r.ok THEN r
            ELSE Ok(Emit(s2, SExpr(PopOr(s1, "<obj>") \o "." \o Call("AtomToString", <<r.v>>) \o " = "
                                   \o PopOr(st, "<rhs>"))))
      [] n \in {"get_array_el", "get_array_el2"} ->
            LET prop == PopOr(st, "<prop>")
                obj == PopOr(s1, "<obj>")
                val == obj \o "[" \o prop \o "]" IN
            Ok(IF n = "get_array_el" THEN Push(s2, val) ELSE Push(Push(s2, obj), val))
      [] n = "put_array_el" ->
            Ok(Emit(s3, SExpr(PopOr(s2, "<obj>") \o "[" \o PopOr(s1, "<index>") \o "] = "
                              \o PopOr(st, "<rhs>"))))
      [] n = "get_length" -> Ok(Push(s1, PopOr(st, "<obj>") \o ".length"))
      [] n = "return" -> Ok(Emit(s1, SReturn(Some(PopOr(st, "undefined")))))
      [] n = "return_undef" -> Ok(Emit(st, SReturn(None)))
      [] n = "ret" -> Ok(Emit(s1, SExpr("ret " \o PopOr(st, "undefined"))))
      [] n = "throw" -> Ok(Emit(s1, SExpr("throw " \o PopOr(st, "<value>"))))
      [] n \in {"if_false", "if_true", "if_false8", "if_true8"} ->
            Ok(Emit(s1, SCondGoto(PopOr(st, "<cond>"), Contains(n, "false"), TargetOr0(ins))))
      [] n \in {"goto", "goto8", "goto16"} -> Ok(Emit(st, SGoto(TargetOr0(ins))))
      [] n = "gosub" -> Ok(Emit(st, SExpr("gosub L" \o ToString(TargetOr0(ins)))))
      [] n = "catch" -> Ok(Push(st, "<exception>"))
      [] n = "for_of_start" -> Ok(Push(Push(Push(s1, "<iterator>"), "<method>"), "<done>"))
      [] n = "for_of_next" ->
            LET done == PopOr(st, "<done>")
                method == PopOr(s1, "<method>")
                iterator == PopOr(s2, "<iterator>") IN
            Ok(Push(Push(Push(Push(Push(s3, iterator), method), done), "<value>"), "<done>"))
      [] n = "iterator_close" -> Ok(s3)
      [] n = "insert2" ->
            LET a == PopOr(st, "<a>")
                obj == PopOr(s1, "<obj>") IN
            Ok(Push(Push(Push(s2, a), obj), a))
      [] n = "insert3" ->
            LET a == PopOr(st, "<a>")
                prop == PopOr(s1, "<prop>")
                obj == PopOr(s2, "<obj>") IN
            Ok(Push(Push(Push(Push(s3, a), obj), prop), a))
      [] n = "insert4" ->
            LET a == PopOr(st, "<a>")
                prop == PopOr(s1, "<prop>")
                obj == PopOr(s2, "<obj>")
                this == PopOr(s3, "<this>") IN
            Ok(Push(Push(Push(Push(Push(s4, a), this), obj), prop), a))
      [] OTHER -> None

\* n pushes of the same text
RECURSIVE PushN(_, _, _)
PushN(st, n, x) == IF n = 0 THEN st ELSE PushN(Push(st, x), n - 1, x)

\* the `_ =>` arm: the stack effect of the opcode number in the current
\* table, or the instruction's own when the table has no such entry
generic_fallback(ins, st) ==
    LET e == opcode_stack_effect(ins.op)
        npop == IF e = None THEN ins.n_pop ELSE e.some[1]
        npush == IF e = None THEN ins.n_push ELSE e.some[2]
        tag == "<" \o ins.name \o ">" IN
    Ok(Emit(PushN(PoppedN(st, npop), npush, tag), SExpr(tag)))

\* one instruction: the first group that has an arm for its name
emit_instr(b, atoms, ins, st, deobfuscate) ==
    LET a == arms_push(b, atoms, ins, st, deobfuscate) IN
    IF a # None THEN a
    ELSE LET v == arms_vars(b, ins, st) IN
    IF v # None THEN v
    ELSE LET k == arms_stack(b, ins, st) IN
    IF k # None THEN k
    ELSE LET d == Call("arms_define", <<b, atoms, ins, st>>) IN
    IF d # None THEN d
    ELSE LET c == Call("arms_call_store", <<b, ins, st>>) IN
    IF c # None THEN c
    ELSE LET x == Call("arms_access", <<atoms, ins, st>>) IN
    IF x # None THEN x
    ELSE generic_fallback(ins, st)

\* ------------------------------------------------------------------------
\* Functions to text
\* ------------------------------------------------------------------------

\* the instructions of one block, from the i-th, against the state st
RECURSIVE emit_block(_, _, _, _, _, _)
emit_block(b, atoms, instrs, i, st, deobfuscate) ==
    IF i > Len(instrs) THEN Ok(st)
    ELSE LET r == Call("emit_instr", <<b, atoms, instrs[i], st, deobfuscate>>) IN
         IF ~r.ok THEN r ELSE emit_block(b, atoms, instrs, i + 1, r.v, deobfuscate)

\* `for blk in blocks`: the label of the block, then its instructions on an
\* empty stack
RECURSIVE emit_blocks(_, _, _, _, _, _)
emit_blocks(b, atoms, blocks, bi, stmts, deobfuscate) ==
    IF bi > Len(blocks) THEN Ok(stmts)
    ELSE LET st == EmitState(Append(stmts, SLabel(blocks[bi].start_pc)), <<>>)
             r == emit_block(b, atoms, blocks[bi].instrs, 1, st, deobfuscate) IN
         IF ~r.ok THEN r ELSE Call("emit_blocks", <<b, atoms, blocks, bi + 1, r.v.stmts, deobfuscate>>)

\* the one-line form of a lone Return
one_line(func_name, ret) ==
    IF ret.v = None THEN "function " \o func_name \o "() { return; }\n"
    ELSE "function " \o func_name \o "() { return " \o ret.v.some \o "; }\n"

\* the statement list after the structural passes and the optimizer
final_stmts(flat, optimize) ==
    LET structured == try_structure_if_else(try_structure_while(flat)) IN
    IF optimize THEN optimize_stmts(structured) ELSE structured

\* the text of a function from its final statement list
function_text(stmts, func_name, optimize) ==
    IF optimize /\ \A i \in 1..Len(stmts) : stmts[i].k = "Label" THEN ""
    ELSE IF optimize /\ Len(stmts) = 2 /\ stmts[1].k = "Label" /\ stmts[2].k = "Return"
    THEN one_line(func_name, stmts[2])
    ELSE IF optimize /\ Len(stmts) = 1 /\ stmts[1].k = "Return"
    THEN one_line(func_name, stmts[1])
    ELSE "function " \o func_name \o "() {\n" \o stmts_to_string(stmts, 2) \o "}\n"

pseudo_decompile_from_instrs(b, atoms, instrs, func_name, optimize, deobfuscate) ==
    LET flat == Call("emit_blocks", <<b, atoms, Call("build_cfg", <<instrs>>), 1, <<>>, deobfuscate>>) IN
    IF ~flat.ok THEN flat
    ELSE Ok(function_text(Call("final_stmts", <<flat.v, optimize>>), func_name, optimize))

\* {:05} of a pc and {:<18} of a name
RECURSIVE ZeroPad(_, _)
ZeroPad(s, w) == IF Len(s) >= w THEN s ELSE ZeroPad("0" \o s, w)
PadRight(s, w) == IF Len(s) >= w THEN s ELSE s \o Pad(w - Len(s))

\* atoms.resolve_idx(idx).unwrap_or(AtomRepr::Raw(idx)), displayed
AtomOrRaw(atoms, idx) ==
    LET r == Call("resolve_idx", <<atoms, idx>>) IN
    Call("AtomToString", <<IF r.ok THEN r.v ELSE AtomRaw(idx)>>)

\* the operand column of a disassembly line
operand_text(atoms, o) ==
    LET a == IF o.k \in {"LabelAbs", "LabelU16"} THEN U32Text(o.a) ELSE ToString(o.a)
        ab == a \o ", " \o ToString(o.b) IN
    CASE o.k \in {"U8", "I8", "U16", "I16", "U32", "I32", "Label", "LabelAbs", "Const", "NPop"} ->
            "       " \o a
      [] o.k \in {"U32x2", "LabelU16", "NPopU16"} -> "       " \o ab
      [] o.k = "Atom" -> "       " \o a \o " ; " \o AtomOrRaw(atoms, o.a)
      [] o.k \in {"AtomU8", "AtomU16"} -> "       " \o ab \o " ; " \o AtomOrRaw(atoms, o.a)
      [] o.k \in {"AtomLabelU8", "AtomLabelU16"} ->
            "       " \o ab \o ", " \o ToString(o.c) \o " ; " \o AtomOrRaw(atoms, o.a)

\* fmt_name: the lower-case name of a format
fmt_name(fmt) ==
    CASE fmt = "NONE_INT" -> "none_int"
      [] fmt = "NONE_LOC" -> "none_loc"
      [] fmt = "NONE_ARG" -> "none_arg"
      [] fmt = "NONE_VAR_REF" -> "none_var_ref"
      [] fmt = "NPOPX" -> "npopx"

RECURSIVE disasm_lines(_, _, _)
disasm_lines(atoms, instrs, i) ==
    IF i > Len(instrs) THEN ""
    ELSE LET ins == instrs[i] IN
         ZeroPad(ToString(ins.pc), 5) \o " " \o PadRight(ins.name, 18)
         \o (IF ins.operand = None THEN "" ELSE operand_text(atoms, ins.operand))
         \o (IF ins.fmt \in {"NONE_INT", "NONE_LOC", "NONE_ARG", "NONE_VAR_REF", "NPOPX"}
             THEN "       <fmt:" \o fmt_name(ins.fmt) \o ">" ELSE "")
         \o "\n" \o disasm_lines(atoms, instrs, i + 1)

disassemble_function_with_atoms_and_instrs(b, atoms, instrs, func_name) ==
    Ok("function " \o func_name \o " (args=" \o ToString(b.arg_count)
       \o ", vars=" \o ToString(b.var_count)
       \o ", strict=" \o (IF b.is_strict_mode THEN "true" ELSE "false") \o ")\n"
       \o "bytecode:\n" \o disasm_lines(atoms, instrs, 1))

\* ------------------------------------------------------------------------
\* The entry point
\* ------------------------------------------------------------------------

RECURSIVE collect_functions(_)
RECURSIVE collect_all(_)
\* collect_functions over a list of values, in order
collect_all(vs) == IF vs = <<>> THEN <<>> ELSE collect_functions(Head(vs)) \o collect_all(Tail(vs))

collect_functions(v) ==
    CASE v.k = "Function" -> <<v.bc>> \o collect_all(v.bc.cpool)
      [] v.k = "Array" -> collect_all(v.items)
      [] v.k = "Object" -> collect_all([i \in 1..Len(v.props) |-> v.props[i][2]])
      [] v.k = "Module" -> collect_functions(v.func_obj)
      [] v.k = "TypedArray" -> collect_functions(v.buffer)
      [] v.k = "Date" -> collect_functions(v.value)
      [] OTHER -> <<>>

module_entry_function(v) ==
    IF v.k = "Module" /\ v.func_obj.k = "Function" THEN Some(v.func_obj.bc) ELSE None

\* collect_functions_entry_first putting the entry behind the others
collect_functions_entry_last(v) ==
    LET fs == collect_functions(v)
        entry == module_entry_function(v)
        keep(f) == f # entry.some IN
    IF entry = None THEN fs ELSE SelectSeq(fs, keep) \o <<entry.some>>

\* funcs.retain(|f| f is not the entry), then the entry in front.  The
\* references are compared by address; a function of the tree other than
\* the entry is a proper part of it, so it differs from it as a value too.
collect_functions_entry_first(v) ==
    LET fs == collect_functions(v)
        entry == module_entry_function(v)
        keep(f) == f # entry.some IN
    IF entry = None THEN fs ELSE <<entry.some>> \o SelectSeq(fs, keep)

\* s.trim().is_empty()
IsBlank(s) == \A i \in 1..Len(s) : CharAt(s, i) \in {" ", "\n", "\t", "\r"}

\* the decoder handed to decompile_functions_with by each dialect
decode_with(dialect, b) ==
    IF dialect = "Legacy" THEN decode_instructions_v1(b) ELSE decode_instructions(b)

\* the text of one function in decompile_functions_with: Ok(text), or the
\* error that ends the call
function_output(b, idx, opts, atoms, dialect) ==
    LET instrs == Call("decode_with", <<dialect, b>>)
        func_name == display_func_name(opts, b, idx) IN
    IF ~instrs.ok THEN instrs
    ELSE IF opts.mode = "Pseudo"
    THEN LET r == pseudo_decompile_from_instrs(b, atoms, instrs.v, func_name,
                                               opts.optimize, opts.deobfuscate) IN
         IF r.ok \/ r = Panic THEN r
         ELSE Ok("// Pseudo decompilation error: " \o ErrorToString(r.err) \o "\n")
    ELSE disassemble_function_with_atoms_and_instrs(b, atoms, instrs.v, func_name)

\* join_functions putting the separator after every function it has
\* rendered before, blank or not
RECURSIVE join_functions_counting_blank(_, _, _, _, _, _)
join_functions_counting_blank(fs, i, opts, atoms, dialect, out) ==
    IF i > Len(fs) THEN Ok(out)
    ELSE LET r == Call("function_output", <<fs[i], i - 1, opts, atoms, dialect>>) IN
         IF ~r.ok THEN r
         ELSE join_functions_counting_blank(fs, i + 1, opts, atoms, dialect,
                  out \o (IF i > 1 THEN "\n" ELSE "") \o (IF IsBlank(r.v) THEN "" ELSE r.v))

RECURSIVE join_functions(_, _, _, _, _, _)
join_functions(fs, i, opts, atoms, dialect, out) ==
    IF i > Len(fs) THEN Ok(out)
    ELSE LET r == Call("function_output", <<fs[i], i - 1, opts, atoms, dialect>>) IN
         IF ~r.ok THEN r
         ELSE IF IsBlank(r.v) THEN join_functions(fs, i + 1, opts, atoms, dialect, out)
         ELSE join_functions(fs, i + 1, opts, atoms, dialect,
                             out \o (IF out # "" THEN "\n" ELSE "") \o r.v)

decompile_functions_with(fs, opts, atoms, dialect) ==
    join_functions(fs, 1, opts, atoms, dialect, "")

\* select_version with the forced dialect ignored
select_version_forced_ignored(b, opts) ==
    IF peek_u8(b, 0) = Ok(BC_VERSION_V1) THEN "Legacy" ELSE "Current"

\* the dialect decompile_with_options settles on
select_version(b, opts) ==
    IF opts.version = "Auto"
    THEN IF peek_u8(b, 0) = Ok(BC_VERSION_V1) THEN "Legacy" ELSE "Current"
    ELSE opts.version

\* ------------------------------------------------------------------------
\* Specification of a decompile call: one input and one set of options,
\* taken through decompile_with_options step by step
\* ------------------------------------------------------------------------

\* payloads after a tag byte hold at most MaxPayload bytes
MaxPayload == 2

RECURSIVE SeqsUpTo(_, _)
SeqsUpTo(S, n) ==
    IF n = 0 THEN {<<>>}
    ELSE LET r == SeqsUpTo(S, n - 1) IN r \cup {Append(q, x) : q \in r, x \in S}

\* every tag either dialect knows, and tags neither knows
TagBytes == (0..24) \cup {127, 128, 255}
Payloads == SeqsUpTo({0, 1, 128}, MaxPayload)

\* a legacy file of one function: no file atoms, the function header, the
\* bytecode, then the constant pool
LegacyFunction(flags_hi, name_id, bytecode, ncpool, cpool) ==
    <<BC_TAG_FUNCTION_BYTECODE_V1, 0, flags_hi, 0, name_id, 0, 0, 0, 0, 0, ncpool,
      Len(bytecode), 0>> \o bytecode \o cpool

\* a current file of one function: the constant pool precedes the bytecode
CurrentFunction(name_field, bytecode, ncpool, cpool) ==
    <<BC_TAG_FUNCTION_BYTECODE, 0, 0, 0, name_field, 0, 0, 0, 0, 0, 0, ncpool,
      Len(bytecode), 0>> \o cpool \o bytecode

\* inputs with more structure than a tag and a short payload
StructuredInputs ==
    {<<>>, <<BC_VERSION_V1>>, <<BC_VERSION>>, <<2>>, <<0>>, <<255, 0, 1>>,
     <<BC_VERSION_V1, 128>>, <<BC_VERSION, 1>>, <<BC_VERSION, 1, 0, 7>>,
     <<BC_VERSION, 1, 1, 2, 120, BC_TAG_SYMBOL, 8>>,
     <<BC_VERSION_V1, 1, 2, 120, BC_TAG_OBJECT, 1, 212, 1, BC_TAG_NULL>>,
     <<BC_VERSION, 0, BC_TAG_INT32>> \o Rep(128, 10) \o <<0>>,
     <<BC_VERSION_V1, 0, BC_TAG_INT32>> \o Rep(255, 10),
     <<BC_VERSION, 0, BC_TAG_INT32, 127>>,
     <<BC_VERSION, 0, BC_TAG_FLOAT64>> \o Rep(0, 8),
     <<BC_VERSION_V1, 0, BC_TAG_STRING, 4, 104, 105>>,
     <<BC_VERSION, 0, BC_TAG_STRING, 5, 104, 0, 0, 216>>,
     <<BC_VERSION, 0, BC_TAG_ARRAY, 2, BC_TAG_NULL, BC_TAG_MAP>>,
     <<BC_VERSION, 0, BC_TAG_BIG_INT, 2, 7, 9>>,
     <<BC_VERSION_V1, 0, BC_TAG_BIG_INT, 2, 7, 9>>,
     <<BC_VERSION, 0, BC_TAG_REGEXP, 2, 97, 0>>,
     <<BC_VERSION_V1, 0>> \o LegacyFunction(0, 0, <<10, 40>>, 0, <<>>),
     <<BC_VERSION_V1, 0>> \o LegacyFunction(0, 56, <<56, 44, 1, 0, 0, 41>>, 0, <<>>),
     <<BC_VERSION_V1, 0>> \o LegacyFunction(0, 0, <<250>>, 0, <<>>),
     <<BC_VERSION_V1, 0>> \o LegacyFunction(0, 0, <<41>>, 1, <<BC_TAG_MAP>>),
     <<BC_VERSION_V1, 0>> \o LegacyFunction(128, 0, <<41>>, 0, <<>>),
     <<BC_VERSION_V1, 0, BC_TAG_MODULE_V1, 56, 0, 0, 0, 0>>
         \o LegacyFunction(0, 0, <<3, 0, 0, 0, 0, 40>>, 1, LegacyFunction(0, 0, <<41>>, 0, <<>>)),
     <<BC_VERSION, 0>> \o CurrentFunction(0, <<>>, 0, <<>>),
     <<BC_VERSION, 0>> \o CurrentFunction(2, <<6, 15>>, 0, <<>>),
     <<BC_VERSION, 0>> \o CurrentFunction(0, <<16>>, 1, <<BC_TAG_MAP>>),
     <<BC_VERSION, 0, BC_TAG_MODULE, 0, 0, 0, 0, 0, 0>> \o CurrentFunction(0, <<16>>, 0, <<>>)}

DecompileInputs ==
    StructuredInputs
    \cup {<<ver, 0, tag>> \o pl : ver \in {BC_VERSION_V1, BC_VERSION}, tag \in TagBytes,
                                  pl \in Payloads}

AllOptions ==
    [mode : {"Pseudo", "Disasm"}, version : {"Auto", "Current", "Legacy"},
     deobfuscate : BOOLEAN, optimize : BOOLEAN]

InitDecompile ==
    /\ buf \in DecompileInputs
    /\ options \in AllOptions
    /\ phase = "start"
    /\ version = "Auto"
    /\ pos = 0
    /\ TablesIdle
    /\ value = None
    /\ funcs = <<>>
    /\ result = None
    /\ src = [kind |-> "file", v |-> 0]
    /\ last = [op |-> "none", start |-> 0, res |-> None]

\* the dialect is resolved before anything is read
SelectVersion ==
    /\ phase = "start"
    /\ version' = select_version(buf, options)
    /\ phase' = "atoms"
    /\ last' = [op |-> "select_version", start |-> pos, res |-> None]
    /\ UNCHANGED <<buf, pos, src, tbl, tblV1, options, value, funcs, result>>

\* read_atom_table(&mut r)? or read_atom_table_v1(&mut r)?, the legacy table
\* adapted by to_atom_table
ReadAtomTable ==
    /\ phase = "atoms"
    /\ LET r == IF version = "Legacy" THEN Call("read_atom_table_v1", <<buf, pos>>)
                ELSE Call("read_atom_table", <<buf, pos>>) IN
       /\ pos' = r.pos
       /\ last' = [op |-> "read_atom_table", start |-> pos, res |-> r]
       /\ IF r.ok
          THEN /\ IF version = "Legacy"
                  THEN tblV1' = r.v /\ tbl' = to_atom_table(r.v)
                  ELSE tbl' = r.v /\ tblV1' = tblV1
               /\ phase' = "value"
               /\ result' = result
          ELSE /\ phase' = "done"
               /\ result' = Err(r.err)
               /\ UNCHANGED <<tbl, tblV1>>
    /\ UNCHANGED <<buf, src, options, version, value, funcs>>

\* ReadValue with a failed read taken for an empty text
ReadValueSwallow ==
    /\ phase = "value"
    /\ LET r == IF version = "Legacy" THEN Call("read_value_v1", <<tblV1, buf, pos>>)
                ELSE Call("read_value", <<tbl, buf, pos>>) IN
       /\ pos' = r.pos
       /\ last' = [op |-> "read_value", start |-> pos, res |-> r]
       /\ IF r.ok
          THEN value' = r.v /\ phase' = "collect" /\ result' = result
          ELSE value' = value /\ phase' = "done" /\ result' = Ok("")
    /\ UNCHANGED <<buf, src, tbl, tblV1, options, version, funcs>>

\* read_value(&mut r, &atoms)? or read_value_v1(&mut r, &atoms)?
ReadValue ==
    /\ phase = "value"
    /\ LET r == IF version = "Legacy" THEN Call("read_value_v1", <<tblV1, buf, pos>>)
                ELSE Call("read_value", <<tbl, buf, pos>>) IN
       /\ pos' = r.pos
       /\ last' = [op |-> "read_value", start |-> pos, res |-> r]
       /\ IF r.ok
          THEN value' = r.v /\ phase' = "collect" /\ result' = result
          ELSE value' = value /\ phase' = "done" /\ result' = Err(r.err)
    /\ UNCHANGED <<buf, src, tbl, tblV1, options, version, funcs>>

\* collect_functions_entry_first(&v), and the value's own text when it holds
\* no function
CollectFunctions ==
    /\ phase = "collect"
    /\ LET fs == collect_functions_entry_first(value) IN
       /\ funcs' = fs
       /\ IF fs = <<>>
          THEN phase' = "done" /\ result' = Ok(ValueToString(value))
          ELSE phase' = "emit" /\ result' = result
    /\ last' = [op |-> "collect_functions", start |-> pos, res |-> None]
    /\ UNCHANGED <<buf, pos, src, tbl, tblV1, options, version, value>>

\* decompile_functions_with(&funcs, options, &atoms, decode)
DecompileFunctions ==
    /\ phase = "emit"
    /\ result' = decompile_functions_with(funcs, options, tbl, version)
    /\ phase' = "done"
    /\ last' = [op |-> "decompile_functions_with", start |-> pos, res |-> None]
    /\ UNCHANGED <<buf, pos, src, tbl, tblV1, options, version, value, funcs>>

NextDecompile ==
    \/ SelectVersion
    \/ ReadAtomTable
    \/ ReadValue
    \/ CollectFunctions
    \/ DecompileFunctions

SpecDecompile == InitDecompile /\ [][NextDecompile]_vars

\* ------------------------------------------------------------------------
\* Specification of the pseudo emitter on one legacy function built around
\* one atom-carrying instruction
\* ------------------------------------------------------------------------

\* the opcodes whose operand is an atom and that pseudo_decompile_from_instrs
\* gives an arm of their own
AtomOps ==
    {"push_atom_value", "get_var", "get_var_undef", "put_var", "put_var_init",
     "get_field", "get_field2", "put_field", "define_field", "set_name",
     "define_class", "define_method"}

OpcodeOf(name) == CHOOSE op \in 0..243 : Call("opcode_info_v1", <<op>>).name = name

U32LE(n) == <<n % 256, (n \div 256) % 256, (n \div 65536) % 256, n \div 16777216>>

\* the instruction named `name` with atom operand idx, as bytes
AtomInstr(name, idx) ==
    <<OpcodeOf(name)>> \o U32LE(idx) \o Rep(0, Call("opcode_info_v1", <<OpcodeOf(name)>>).size - 5)

\* this; true; <atom instruction>; return 7
AtomProgram(name, idx) ==
    <<OpcodeOf("push_this"), OpcodeOf("push_true")>> \o AtomInstr(name, idx)
        \o <<OpcodeOf("push_i8"), 7, OpcodeOf("return")>>

\* a FunctionBytecode with nothing but its bytecode
BareFunction(code) ==
    [func_name |-> AtomNull, is_strict_mode |-> FALSE, arg_count |-> 0,
     var_count |-> 0, defined_arg_count |-> 0, stack_size |-> 0,
     var_ref_count |-> 0, closure_var_count |-> 0, cpool_count |-> 0,
     byte_code_len |-> Len(code), locals |-> <<>>, closure_vars |-> <<>>,
     cpool |-> <<>>, bytecode |-> code]

\* an atom index every table of LegacyTables resolves, the first one none of
\* them resolves, and one far outside
AtomIdxSamples == {56, Len(LEGACY_V1_ATOMS) + MaxUserAtoms + 1, 300}

InitPseudo ==
    /\ \E name \in AtomOps, idx \in AtomIdxSamples :
          /\ funcs = <<BareFunction(AtomProgram(name, idx))>>
          /\ src = [kind |-> "atomop", v |-> [name |-> name, idx |-> idx]]
    /\ tblV1 \in LegacyTables
    /\ tbl = to_atom_table(tblV1)
    /\ options \in {o \in AllOptions : o.version = "Legacy"}
    /\ version = "Legacy"
    /\ phase = "emit"
    /\ buf = <<>>
    /\ pos = 0
    /\ value = None
    /\ result = None
    /\ last = [op |-> "none", start |-> 0, res |-> None]

NextPseudo == DecompileFunctions

SpecPseudo == InitPseudo /\ [][NextPseudo]_vars

\* ------------------------------------------------------------------------
\* Properties of a decompile call
\* ------------------------------------------------------------------------

\* the atom table and the top-level value of the input, read afresh
AtomsOf(b, dialect) ==
    IF dialect = "Legacy" THEN read_atom_table_v1(b, 0) ELSE read_atom_table(b, 0)

TopValueOf(b, dialect, at) ==
    IF dialect = "Legacy" THEN read_value_v1(at.v, b, at.pos) ELSE read_value(at.v, b, at.pos)

\* C1: whatever the input and the options, an error met while the atom table
\* or the top-level value is read is what decompile_with_options returns:
\* that error itself, and no text with it or in its place.
C1_ReadErrorsReturned ==
    phase = "done" =>
        LET dialect == select_version(buf, options)
            at == AtomsOf(buf, dialect) IN
        IF ~at.ok THEN result = Err(at.err)
        ELSE LET top == TopValueOf(buf, dialect, at) IN
             ~top.ok => result = Err(top.err)

\* an overlong SLEB128 in the top-level value has ended the call
C1_Witness ==
    /\ phase = "done"
    /\ last.op = "read_value"
    /\ AtomsOf(buf, version).ok
    /\ result = Err(InvalidSleb128)

\* C3: Auto takes the legacy path exactly when the first byte is the legacy
\* version constant, and the current path otherwise, the empty input
\* included; a forced version is taken whatever the first byte is; and the
\* atom-table reader of the path taken answers InvalidVersion(b) to a first
\* byte b that is not its dialect's constant, with that byte alone consumed.
C3_DialectSelection ==
    phase # "start" =>
        /\ options.version = "Auto" =>
              version = IF Len(buf) > 0 /\ buf[1] = BC_VERSION_V1 THEN "Legacy" ELSE "Current"
        /\ options.version # "Auto" => version = options.version
        /\ (/\ last.op = "read_atom_table"
            /\ Len(buf) > 0
            /\ buf[1] # (IF version = "Legacy" THEN BC_VERSION_V1 ELSE BC_VERSION))
           => /\ last.res = RErr(InvalidVersion(buf[1]), 1)
              /\ pos = 1
              /\ phase = "done"
              /\ result = Err(InvalidVersion(buf[1]))

\* the legacy path forced on an input whose first byte is 2
C3_Witness ==
    /\ phase = "done"
    /\ options.version = "Legacy"
    /\ buf = <<2>>
    /\ version = "Legacy"
    /\ pos = 1
    /\ result = Err(InvalidVersion(2))

\* the tags read_value and read_value_v1 have a decoder arm for
CurrentDecoderTags == (1..15) \cup {17, 18, 23}
LegacyDecoderTags == (1..9) \cup (13..21)

\* C4: a top-level tag without a decoder. In the current dialect the tags
\* 16, 19, 20, 21 and 22 fail with UnsupportedTag(tag) and any other unknown
\* tag is the value Unsupported{tag}, the tag byte alone consumed; in the
\* legacy dialect every tag without an arm fails with UnsupportedTag(tag).
\* The input [BC_VERSION, 0, 0x15] returns UnsupportedTag(21).
C4_TagWithoutDecoder ==
    /\ (last.op = "read_value" /\ last.start < Len(buf)) =>
          LET tag == buf[last.start + 1] IN
          /\ (version = "Current" /\ tag \in {16, 19, 20, 21, 22})
                => /\ ~last.res.ok
                   /\ last.res.err = UnsupportedTag(tag)
                   /\ result = Err(UnsupportedTag(tag))
          /\ (version = "Current" /\ tag \notin CurrentDecoderTags \cup {16, 19, 20, 21, 22})
                => /\ last.res = ROk(VUnsupported(tag), last.start + 1)
                   /\ pos = last.start + 1
          /\ (version = "Legacy" /\ tag \notin LegacyDecoderTags)
                => /\ ~last.res.ok
                   /\ last.res.err = UnsupportedTag(tag)
                   /\ result = Err(UnsupportedTag(tag))
    /\ (phase = "done" /\ buf = <<BC_VERSION, 0, 21>> /\ options.version # "Legacy")
          => result = Err(UnsupportedTag(21))

\* [BC_VERSION, 0, 0x15] has been refused
C4_Witness ==
    /\ phase = "done"
    /\ buf = <<BC_VERSION, 0, 21>>
    /\ version = "Current"
    /\ last.op = "read_value"
    /\ result = Err(UnsupportedTag(21))

\* C5: a top-level value whose tag is one of 1..10 is decoded by the legacy
\* reader as the current reader decodes the same bytes; a legacy value with
\* tag 10 is a BigInt of a LEB128 length and that many bytes, not an error.
\* (Objects and arrays are compared when they are empty: their elements meet
\* the two dialects' atom encodings.)
C5_SharedTags ==
    (/\ last.op = "read_value"
     /\ version = "Legacy"
     /\ Len(buf) > last.start + 1
     /\ buf[last.start + 1] \in 1..10
     /\ buf[last.start + 1] \in {BC_TAG_OBJECT, BC_TAG_ARRAY} => buf[last.start + 2] = 0)
    => /\ last.res = read_value(NoTable, buf, last.start)
       /\ buf[last.start + 1] = BC_TAG_BIG_INT /\ read_value(NoTable, buf, last.start).ok
             => last.res.ok /\ last.res.v.k = "BigInt"

\* ------------------------------------------------------------------------
\* Properties of the pseudo emitter
\* ------------------------------------------------------------------------

\* C2: in Pseudo mode an atom operand that does not resolve is recorded, for
\* each of the atom-carrying opcodes of AtomOps, as an inline
\* "// Atom resolution error: ..." statement, and the instructions after it
\* are still emitted: the function's text is not replaced.
C2_AtomErrorInline ==
    (/\ phase = "done"
     /\ src.kind = "atomop"
     /\ options.mode = "Pseudo"
     /\ ~resolve_idx(tbl, src.v.idx).ok)
    => /\ result.ok
       /\ Contains(result.v, "// Atom resolution error: ")
       /\ Contains(result.v, "return 7;")
       /\ ~Contains(result.v, "// Pseudo decompilation error")

\* ------------------------------------------------------------------------
\* Specification of one function's decompilation, step by step: the decoder
\* of the dialect, build_cfg, the emitter block by block, then the
\* statement passes and the text
\* ------------------------------------------------------------------------

MaxCode == 3

\* bytes that are opcodes of one dialect, of both, or of neither
CodeBytes == {6, 15, 20, 40, 187, 250}

\* three values on the stack, then the opcode with zeroed operand bytes
OneOp(op) ==
    Rep(OpcodeOf("push_true"), 3) \o <<op>>
        \o Rep(0, Call("opcode_info_v1", <<op>>).size - 1)

\* offsets of a branch: forward, backward (two's complement) and far
Offsets8 == {<<r>> : r \in {0, 1, 2, 3, 4, 100, 253, 255}}
Offsets16 == {<<r, 0>> : r \in {0, 1, 2, 3, 4, 100}} \cup {<<253, 255>>, <<255, 255>>}
Offsets32 ==
    {<<r, 0, 0, 0>> : r \in {0, 1, 2, 3, 4, 100}}
    \cup {<<253, 255, 255, 255>>, <<255, 255, 255, 255>>}

\* true; <branch>; true; return
BranchProgram(op, offset) ==
    <<OpcodeOf("push_true"), op>> \o offset \o <<OpcodeOf("push_true"), OpcodeOf("return")>>

LegacyBranches ==
    {BranchProgram(OpcodeOf(n), o) : n \in {"goto", "if_false", "if_true"}, o \in Offsets32}
    \cup {BranchProgram(OpcodeOf(n), o) : n \in {"goto8", "if_false8"}, o \in Offsets8}
    \cup {BranchProgram(OpcodeOf("goto16"), o) : o \in Offsets16}

\* the same shape on the opcodes of OpcodeHeader: push_true 6, if_false 13,
\* goto 14, return 15
CurrentBranches == {<<6, op>> \o o \o <<6, 15>> : op \in {13, 14}, o \in Offsets32}

\* push_true; if_false L1; push_i8 1; return; L1: push_i8 2; return
IfElseLegacy ==
    <<OpcodeOf("push_true"), OpcodeOf("if_false"), 7, 0, 0, 0,
      OpcodeOf("push_i8"), 1, OpcodeOf("return"),
      OpcodeOf("push_i8"), 2, OpcodeOf("return")>>
IfElseCurrent == <<6, 13, 7, 0, 0, 0, 20, 1, 15, 20, 2, 15>>

\* L0: get_loc 0; push_i8 10; lt; if_false L1; inc_loc 0; goto L0;
\* L1: return_undef -- with the 32-bit goto and with goto8
WhileLegacy(back) ==
    <<OpcodeOf("get_loc"), 0, 0, OpcodeOf("push_i8"), 10, OpcodeOf("lt"),
      OpcodeOf("if_false"), 6 + Len(back), 0, 0, 0, OpcodeOf("inc_loc"), 0>>
    \o back \o <<OpcodeOf("return_undef")>>
WhileGoto == WhileLegacy(<<OpcodeOf("goto"), 242, 255, 255, 255>>)
WhileGoto8 == WhileLegacy(<<OpcodeOf("goto8"), 242>>)

\* catch L; <rest>: an instruction that carries a label and emits no
\* statement, so that the block it ends holds a label only
CatchLegacy(rel, rest) == <<OpcodeOf("catch")>> \o U32LE(rel) \o rest
CatchPrograms ==
    {CatchLegacy(rel, rest) :
        rel \in {0, 4, 5},
        rest \in {<<>>, <<OpcodeOf("return_undef")>>,
                  <<OpcodeOf("push_true"), OpcodeOf("return")>>}}

\* true; if_false8 L2; goto8 L<4 + g>; goto8 L3 -- the conditional branch
\* aims at its own operand byte
StrayPrograms ==
    {<<OpcodeOf("push_true"), OpcodeOf("if_false8"), 0,
       OpcodeOf("goto8"), g, OpcodeOf("goto8"), 253>> : g \in {0, 1, 255}}

\* the functions decompiled: [kind, dialect, code]
FunctionInputs ==
    {[kind |-> "bytes", dialect |-> d, code |-> c] :
        d \in {"Legacy", "Current"}, c \in SeqsUpTo(CodeBytes, MaxCode)}
    \cup {[kind |-> "op", dialect |-> "Legacy", code |-> OneOp(op)] : op \in 0..243}
    \cup {[kind |-> "branch", dialect |-> "Legacy", code |-> c] : c \in LegacyBranches}
    \cup {[kind |-> "branch", dialect |-> "Current", code |-> c] : c \in CurrentBranches}
    \cup {[kind |-> "if_else", dialect |-> "Legacy", code |-> IfElseLegacy],
          [kind |-> "if_else", dialect |-> "Current", code |-> IfElseCurrent],
          [kind |-> "while", dialect |-> "Legacy", code |-> WhileGoto],
          [kind |-> "while", dialect |-> "Legacy", code |-> WhileGoto8]}
    \cup {[kind |-> "catch", dialect |-> "Legacy", code |-> c] : c \in CatchPrograms}
    \cup {[kind |-> "stray", dialect |-> "Legacy", code |-> c] : c \in StrayPrograms}

InitFunction ==
    /\ \E f \in Call("FunctionInputs", <<>>) :
          /\ src = [kind |-> f.kind, v |-> None]
          /\ buf = f.code
          /\ version = f.dialect
    /\ options \in {o \in AllOptions : o.mode = "Pseudo" /\ o.version = "Auto"}
    /\ tblV1 = [atoms |-> LEGACY_V1_ATOMS]
    /\ tbl = to_atom_table(tblV1)
    /\ phase = "f_decode"
    /\ pos = 0
    /\ value = None
    /\ funcs = <<>>
    /\ result = None
    /\ last = [op |-> "none", start |-> 0, res |-> None]

\* decode(b)?: the instructions, or the error that ends the call
DecodeInstructions ==
    /\ phase = "f_decode"
    /\ \E r \in {Call("decode_with", <<version, BareFunction(buf)>>)} :
          /\ value' = r
          /\ result' = IF r.ok THEN None ELSE r
          /\ phase' = IF r.ok THEN "f_cfg" ELSE "f_done"
    /\ last' = [op |-> "decode_instructions", start |-> 0, res |-> None]
    /\ UNCHANGED <<buf, pos, src, tbl, tblV1, options, version, funcs>>

\* let blocks = build_cfg(instrs); let mut stmts = Vec::new()
BuildCfg ==
    /\ phase = "f_cfg"
    /\ funcs' = Call("build_cfg", <<value.v>>)
    /\ result' = Ok(<<>>)
    /\ pos' = 0
    /\ phase' = "f_blocks"
    /\ last' = [op |-> "build_cfg", start |-> 0, res |-> None]
    /\ UNCHANGED <<buf, src, tbl, tblV1, options, version, value>>

\* one round of `for blk in blocks`: the label, then the instructions of
\* the block on an empty stack; last.res keeps the stack the block leaves
EmitBlock ==
    /\ phase = "f_blocks"
    /\ pos < Len(funcs)
    /\ \E r \in {Call("emit_block",
                       <<BareFunction(buf), tbl, funcs[pos + 1].instrs, 1,
                         EmitState(Append(result.v, SLabel(funcs[pos + 1].start_pc)), <<>>),
                         options.deobfuscate>>)} :
          /\ result' = IF r.ok THEN Ok(r.v.stmts) ELSE r
          /\ phase' = IF r.ok THEN "f_blocks" ELSE "f_done"
          /\ last' = [op |-> "emit_block", start |-> pos,
                      res |-> IF r.ok THEN Ok(r.v.stack) ELSE r]
    /\ pos' = pos + 1
    /\ UNCHANGED <<buf, src, tbl, tblV1, options, version, value, funcs>>

\* the tail of pseudo_decompile_from_instrs: the structuring passes, the
\* optimizer when asked for, and the text; last.res keeps the flat list
FinishFunction ==
    /\ phase = "f_blocks"
    /\ pos = Len(funcs)
    /\ result' = Ok(Call("function_text",
                         <<Call("final_stmts", <<result.v, options.optimize>>),
                           Call("display_func_name", <<options, BareFunction(buf), 0>>),
                           options.optimize>>))
    /\ phase' = "f_done"
    /\ last' = [op |-> "function_text", start |-> pos, res |-> result]
    /\ UNCHANGED <<buf, pos, src, tbl, tblV1, options, version, value, funcs>>

NextFunction ==
    \/ DecodeInstructions
    \/ BuildCfg
    \/ EmitBlock
    \/ FinishFunction

SpecFunction == InitFunction /\ [][NextFunction]_vars

\* the steps together are pseudo_decompile_from_instrs
StepsAgree ==
    (phase = "f_done" /\ value.ok)
    => result = pseudo_decompile_from_instrs(BareFunction(buf), tbl, value.v,
                    display_func_name(options, BareFunction(buf), 0),
                    options.optimize, options.deobfuscate)

\* ------------------------------------------------------------------------
\* Properties of the decoders
\* ------------------------------------------------------------------------

\* the descriptor a dialect has for an opcode
InfoOf(dialect, op) == IF dialect = "Legacy" THEN opcode_info_v1(op) ELSE opcode_info(op)

\* the pc at which walking the declared sizes from pc stops: the length of
\* the bytecode, or the first pc whose opcode has no descriptor or lacks
\* bytes
RECURSIVE StopPc(_, _, _)
StopPc(dialect, code, pc) ==
    IF pc >= Len(code) THEN pc
    ELSE LET info == InfoOf(dialect, code[pc + 1]) IN
         IF info = None \/ Len(code) - pc < info.size \/ info.size = 0 THEN pc
         ELSE StopPc(dialect, code, pc + info.size)

\* C11: a decoder returns Ok exactly when the bytecode splits from pc 0 into
\* opcodes that all have a descriptor and their declared size available;
\* the instructions then start at pc 0, follow one another by their sizes
\* and end at the length.  Otherwise the error names the first offending
\* pc: InvalidOpcode(op) without a descriptor, else TruncatedOpcode with
\* remaining = length - pc < size.
C11_DecodeSplits ==
    last.op = "decode_instructions"
    => LET stop == StopPc(version, buf, 0)
           n == Len(buf) IN
       /\ value.ok <=> stop = n
       /\ value.ok =>
             LET ins == value.v IN
             /\ ins = <<>> <=> n = 0
             /\ ins # <<>> => ins[1].pc = 0 /\ ins[Len(ins)].pc + ins[Len(ins)].size = n
             /\ \A i \in 1..Len(ins) :
                   /\ ins[i].op = buf[ins[i].pc + 1]
                   /\ InfoOf(version, ins[i].op) # None
                   /\ ins[i].size = InfoOf(version, ins[i].op).size
                   /\ i < Len(ins) => ins[i + 1].pc = ins[i].pc + ins[i].size
       /\ ~value.ok =>
             LET info == InfoOf(version, buf[stop + 1]) IN
             IF info = None THEN value.err = InvalidOpcode(buf[stop + 1])
             ELSE /\ value.err = TruncatedOpcode(stop, info.size, n - stop)
                  /\ n - stop < info.size

\* a truncated opcode after a prefix that decodes
C11_Witness ==
    /\ last.op = "decode_instructions"
    /\ ~value.ok
    /\ value.err.e = "TruncatedOpcode"
    /\ value.err.pc > 0

\* C12: every successfully decoded instruction that carries a label operand
\* has its label_target within [0, byte_code_len], byte_code_len being the
\* end of the function.
C12_TargetInRange ==
    (last.op = "decode_instructions" /\ value.ok)
    => \A i \in 1..Len(value.v) :
          LET t == label_target(value.v[i]) IN
          t # None => t.some >= 0 /\ t.some <= BareFunction(buf).byte_code_len

\* ------------------------------------------------------------------------
\* Properties of the control-flow graph
\* ------------------------------------------------------------------------

\* the instruction lists of the blocks, one after the other
RECURSIVE BlockInstrs(_, _)
BlockInstrs(blocks, bi) ==
    IF bi > Len(blocks) THEN <<>> ELSE blocks[bi].instrs \o BlockInstrs(blocks, bi + 1)

\* C13: build_cfg puts every instruction in exactly one basic block, and the
\* blocks' instruction lists, concatenated in block order, are the decoded
\* list: nothing missing, duplicated or reordered.
C13_CfgPartition ==
    last.op = "build_cfg"
    => /\ BlockInstrs(funcs, 1) = value.v
       /\ \A i \in 1..Len(value.v) :
             Cardinality({<<bi, k>> \in (1..Len(funcs)) \X (1..Len(value.v)) :
                             /\ k <= Len(funcs[bi].instrs)
                             /\ funcs[bi].instrs[k] = value.v[i]}) = 1

\* three blocks that all hold instructions, one of them several
C13_Witness ==
    /\ last.op = "build_cfg"
    /\ Len(funcs) >= 3
    /\ \A bi \in 1..Len(funcs) : funcs[bi].instrs # <<>>
    /\ \E bi \in 1..Len(funcs) : Len(funcs[bi].instrs) >= 2

\* ------------------------------------------------------------------------
\* Properties of the emitter
\* ------------------------------------------------------------------------

\* the stack-shuffle opcodes
Shuffles == {"drop", "dup", "swap", "nip", "insert2", "insert3", "insert4"}

\* the sum of n_push - n_pop over the first n instructions
RECURSIVE DeclaredDepth(_, _)
DeclaredDepth(instrs, n) ==
    IF n = 0 THEN 0
    ELSE DeclaredDepth(instrs, n - 1) + instrs[n].n_push - instrs[n].n_pop

\* no instruction of the block pops more than the descriptors before it
\* have left on the stack
NeverUnderflows(instrs) ==
    \A n \in 1..Len(instrs) : DeclaredDepth(instrs, n - 1) >= instrs[n].n_pop

\* the instruction has no arm of its own: the `_ =>` arm handles it, with
\* the stack effect the current table gives for its opcode number
ReachesFallback(ins) ==
    LET st == EmitState(<<>>, <<>>) IN
    emit_instr(BareFunction(buf), tbl, ins, st, FALSE) = generic_fallback(ins, st)

\* C14: the symbolic stack the emitter leaves after a block (started empty)
\* is as deep as the sum of the descriptors' n_push - n_pop over the
\* block's instructions, for blocks without a stack-shuffle opcode.  The
\* blocks are further limited to those whose declared depth never asks for
\* a value that is not there and whose instructions all have an arm of
\* their own in the emitter.
C14_StackDiscipline ==
    (/\ last.op = "emit_block"
     /\ last.res.ok
     /\ \A i \in 1..Len(funcs[last.start + 1].instrs) :
           /\ funcs[last.start + 1].instrs[i].name \notin Shuffles
           /\ ~ReachesFallback(funcs[last.start + 1].instrs[i])
     /\ NeverUnderflows(funcs[last.start + 1].instrs))
    => Len(last.res.v)
       = DeclaredDepth(funcs[last.start + 1].instrs, Len(funcs[last.start + 1].instrs))

\* ------------------------------------------------------------------------
\* Specification of structural recovery: a flat statement list taken
\* through try_structure_while and try_structure_if_else, round after
\* round, and through optimize_stmts after the first round
\* ------------------------------------------------------------------------

MaxFlat == 4
MaxRounds == 2

\* flat statements: no While, no IfElse
FlatStmts ==
    {SLabel(0), SLabel(3), SLabel(5),
     SCondGoto("c", TRUE, 5), SCondGoto("c", FALSE, 5),
     SGoto(0), SGoto(3), SExpr("x"), SReturn(None)}

\* the statements of a loop from head to exit, and of a branch from its
\* test to its end
LoopList(head, exit, body) ==
    <<SLabel(head), SCondGoto("c", TRUE, exit)>> \o body \o <<SGoto(head), SLabel(exit)>>
BranchList(else_pc, end_pc, then_stmts, else_stmts) ==
    <<SCondGoto("c", TRUE, else_pc)>> \o then_stmts \o <<SGoto(end_pc), SLabel(else_pc)>>
        \o else_stmts \o <<SLabel(end_pc)>>

\* short straight-line bodies
Bodies == SeqsUpTo({SExpr("x"), SAssign("v", "1"), SReturn(None)}, MaxFlat - 2)

\* the lists a compiler lays out: a loop, two loops one after the other
\* (the exit of the first is the head of the second), a branch; and the
\* branch with a Goto right after its test
PatternLists ==
    {LoopList(0, 5, b1) \o <<SExpr("y")>> : b1 \in Bodies}
    \cup {LoopList(0, 5, b1) \o Tail(LoopList(5, 3, b2)) : b1 \in Bodies, b2 \in Bodies}
    \cup {<<SExpr("y")>> \o BranchList(5, 3, b1, b2) : b1 \in Bodies, b2 \in Bodies}
    \cup {<<SCondGoto("c", TRUE, 5), SGoto(3)>> \o Tail(BranchList(5, 3, b1, b2)) :
             b1 \in Bodies, b2 \in Bodies}

\* a list on its own, the same list as the body of the loop
\* L0: if (!(a)) goto L9; ...; goto L0; L9:, and the laid-out lists
FlatLists ==
    {pre \o core \o post :
        core \in SeqsUpTo(FlatStmts, MaxFlat),
        <<pre, post>> \in {<<<<>>, <<>>>>,
                           <<<<SLabel(0), SCondGoto("a", TRUE, 9)>>,
                             <<SGoto(0), SLabel(9)>>>>}}
    \cup PatternLists

InitStructure ==
    /\ value \in Call("FlatLists", <<>>)
    /\ phase = "s_while"
    /\ pos = 0
    /\ result = None
    /\ last = [op |-> "none", start |-> 0, res |-> None]
    /\ buf = <<>>
    /\ src = [kind |-> "flat", v |-> Ok(value)]
    /\ TablesIdle
    /\ options \in {o \in AllOptions : o.mode = "Pseudo" /\ o.version = "Auto" /\ ~o.deobfuscate}
    /\ version = "Auto"
    /\ funcs = <<>>

\* let stmts = try_structure_while(&stmts); last.res keeps the list the
\* pass was given
StructureWhile ==
    /\ phase = "s_while"
    /\ pos < MaxRounds
    /\ value' = Call("try_structure_while", <<value>>)
    /\ phase' = "s_if_else"
    /\ last' = [op |-> "try_structure_while", start |-> pos, res |-> Ok(value)]
    /\ UNCHANGED <<buf, pos, src, tbl, tblV1, options, version, funcs, result>>

\* let stmts = try_structure_if_else(&stmts); result keeps the list the
\* first round ends with
StructureIfElse ==
    /\ phase = "s_if_else"
    /\ value' = Call("try_structure_if_else", <<value>>)
    /\ result' = IF pos = 0 THEN Ok(value') ELSE result
    /\ pos' = pos + 1
    /\ phase' = "s_while"
    /\ last' = [op |-> "try_structure_if_else", start |-> pos, res |-> Ok(value)]
    /\ UNCHANGED <<buf, src, tbl, tblV1, options, version, funcs>>

\* if optimize { optimize_stmts(&stmts) }, after the first round
OptimizeStmts ==
    /\ phase = "s_while"
    /\ pos = 1
    /\ options.optimize
    /\ value' = Call("optimize_stmts", <<value>>)
    /\ phase' = "s_done"
    /\ last' = [op |-> "optimize_stmts", start |-> pos, res |-> Ok(value)]
    /\ UNCHANGED <<buf, pos, src, tbl, tblV1, options, version, funcs, result>>

NextStructure == StructureWhile \/ StructureIfElse \/ OptimizeStmts

SpecStructure == InitStructure /\ [][NextStructure]_vars

\* C15: structural recovery is idempotent: for every flat statement list,
\* try_structure_while then try_structure_if_else applied twice gives the
\* list they give applied once.
C15_StructureIdempotent ==
    (last.op = "try_structure_if_else" /\ pos = 2) => value = result.v

\* ------------------------------------------------------------------------
\* Properties of the text of a function
\* ------------------------------------------------------------------------

\* the text of the function of the state, from the flat list kept in
\* last.res, under the given optimize flag
TextUnder(optimize) ==
    function_text(final_stmts(last.res.v, optimize),
                  display_func_name(options, BareFunction(buf), 0), optimize)

\* C16: the pseudo text of a function produced with optimize = true is the
\* text produced with optimize = false, or a shorter one.
C16_OptimizeNotLonger ==
    (last.op = "function_text" /\ options.optimize)
    => /\ result = Ok(TextUnder(TRUE))
       /\ \/ result.v = TextUnder(FALSE)
          \/ Len(result.v) < Len(TextUnder(FALSE))

\* a goto to the next statement folded into the return after it
C16_Witness ==
    /\ last.op = "function_text"
    /\ options.optimize
    /\ \E i \in 1..(Len(last.res.v) - 2) :
          /\ last.res.v[i].k = "Goto"
          /\ last.res.v[i + 1] = SLabel(last.res.v[i].t)
          /\ last.res.v[i + 2].k = "Return"
    /\ Len(result.v) < Len(TextUnder(FALSE))

\* C17: for the function `push_true; if_false L1; push_i8 1; return;
\* L1: push_i8 2; return` the pseudo text holds the statement
\* if (true) { return 1; } else { return 2; } and no goto or conditional
\* goto line for that branch.
C17_IfElseRecovered ==
    (src.kind = "if_else" /\ last.op = "function_text")
    => /\ result.ok
       /\ Contains(result.v, "if (true) {\n")
       /\ Contains(result.v, "} else {\n")
       /\ Contains(result.v, "return 1;\n")
       /\ Contains(result.v, "return 2;\n")
       /\ ~Contains(result.v, "goto")

\* the lines of a text, without their indentation, one after the other
\* with one space between them
\* (line by line from position i; at_start: i is at the start of its line)
RECURSIVE Squeezed(_, _, _)
Squeezed(s, i, at_start) ==
    IF i > Len(s) THEN ""
    ELSE LET end == CHOOSE e \in i..(Len(s) + 1) :
                       /\ e = Len(s) + 1 \/ SubSeq(s, e, e) = "\n"
                       /\ \A j \in i..(e - 1) : SubSeq(s, j, j) # "\n"
             first == IF ~at_start THEN i
                      ELSE CHOOSE f \in i..end :
                              /\ f = end \/ SubSeq(s, f, f) # " "
                              /\ \A j \in i..(f - 1) : SubSeq(s, j, j) = " " IN
         SubSeq(s, first, end - 1) \o (IF end < Len(s) THEN " " ELSE "")
             \o Squeezed(s, end + 1, TRUE)

\* C18: for the canonical loop `L0: get_loc 0; push_i8 10; lt; if_false L1;
\* inc_loc 0; goto L0; L1: return_undef` the pseudo text is, up to
\* whitespace, while ((loc0 < 10)) { loc0++; } return; -- the body is the
\* single statement loc0++, and no label or goto line is left.
C18_WhileRecovered ==
    (src.kind = "while" /\ last.op = "function_text")
    => /\ result.ok
       /\ Contains(Squeezed(result.v, 1, TRUE), "while ((loc0 < 10)) { loc0++; } return;")
       /\ ~Contains(result.v, "goto")
       /\ ~Contains(result.v, ":\n")

\* ------------------------------------------------------------------------
\* Specification of the rendering of a tree of functions: the functions of
\* a value collected, then decompiled and joined
\* ------------------------------------------------------------------------

MaxNested == 2

\* a Function value
Fn(name, code, cpool) ==
    VFunction([BareFunction(code) EXCEPT !.func_name = name, !.cpool = cpool,
                                         !.cpool_count = Len(cpool)])

\* no name, a name, and a name that displays as <atom:7>
FnNames == {AtomNull, AtomString("f"), AtomRaw(7)}

\* no code, return_undef, and a byte that is no opcode
FnCodes == {<<>>, <<OpcodeOf("return_undef")>>, <<250>>}

LeafFunctions == {Fn(n, c, <<>>) : n \in FnNames, c \in FnCodes}

\* fclosure8 k; return
ClosureCode(k) == <<OpcodeOf("fclosure8"), k, OpcodeOf("return")>>

\* a function that returns the closure of an entry of its constant pool,
\* the pool holding functions that return nothing
ClosureTrees ==
    {Fn(n, ClosureCode(k), cp) :
        n \in FnNames, k \in 0..(MaxNested - 1),
        cp \in SeqsUpTo({Fn(m, <<OpcodeOf("return_undef")>>, <<>>) :
                            m \in {AtomNull, AtomString("f")}}, MaxNested)}

\* a top-level function with up to MaxNested functions in its constant pool
FunctionTrees ==
    {Fn(n, c, cp) : n \in FnNames, c \in FnCodes, cp \in SeqsUpTo(LeafFunctions, MaxNested)}
    \cup ClosureTrees

InitJoin ==
    /\ value \in Call("FunctionTrees", <<>>)
    /\ options \in {o \in AllOptions : o.version = "Legacy"}
    /\ version = "Legacy"
    /\ tblV1 = [atoms |-> LEGACY_V1_ATOMS]
    /\ tbl = to_atom_table(tblV1)
    /\ phase = "collect"
    /\ src = [kind |-> "tree", v |-> None]
    /\ buf = <<>>
    /\ pos = 0
    /\ funcs = <<>>
    /\ result = None
    /\ last = [op |-> "none", start |-> 0, res |-> None]

NextJoin == CollectFunctions \/ DecompileFunctions

SpecJoin == InitJoin /\ [][NextJoin]_vars

\* ------------------------------------------------------------------------
\* Properties of the joined text
\* ------------------------------------------------------------------------

\* the text decompile_functions_with has for the i-th function (from 1)
Rendering(i) == function_output(funcs[i], i - 1, options, tbl, version)

\* the call has run over a tree and rendered every function
Joined ==
    /\ src.kind = "tree"
    /\ last.op = "decompile_functions_with"
    /\ result.ok

\* the header of the i-th function names it `name`
Headed(i, name) ==
    /\ StartsWith(Rendering(i).v, "function " \o name
                                    \o (IF options.mode = "Pseudo" THEN "()" ELSE " ("))
    /\ Contains(result.v, Rendering(i).v)

\* the rules of C19 that do not depend on where a function sits
NameRules ==
    \A i \in 1..Len(funcs) :
       ~IsBlank(Rendering(i).v)
       => /\ (options.deobfuscate /\ funcs[i].func_name = AtomNull)
                => Headed(i, "closure_" \o ToString(i - 1))
          /\ (~options.deobfuscate /\ funcs[i].func_name = AtomNull)
                => Headed(i, "<null>") /\ ~Contains(Rendering(i).v, "closure_")
          /\ funcs[i].func_name = AtomRaw(7) => Headed(i, "atom_7")

NonBlank(texts) == SelectSeq(texts, LAMBDA t : ~IsBlank(t))

\* texts with one line feed between each two
RECURSIVE Interspersed(_)
Interspersed(texts) ==
    IF texts = <<>> THEN ""
    ELSE IF Len(texts) = 1 THEN texts[1]
    ELSE texts[1] \o "\n" \o Interspersed(Tail(texts))

\* C20: in the joined text a function whose rendering is empty or blank
\* contributes neither text nor separator, two consecutive non-blank
\* renderings are separated by exactly one blank line, and the text never
\* starts with a separator nor holds two separators in a row.
C20_JoinSkipsBlank ==
    (/\ src.kind = "tree"
     /\ last.op = "decompile_functions_with"
     /\ \A i \in 1..Len(funcs) : Rendering(i).ok)
    => /\ result.ok
       /\ result.v = Interspersed(NonBlank([i \in 1..Len(funcs) |-> Rendering(i).v]))
       /\ ~StartsWith(result.v, "\n")
       /\ ~Contains(result.v, "\n\n\n")

\* an empty rendering between two that are not
C20_Witness ==
    /\ Joined
    /\ Len(funcs) = 3
    /\ ~IsBlank(Rendering(1).v)
    /\ Rendering(2).v = ""
    /\ ~IsBlank(Rendering(3).v)
    /\ result.v = Rendering(1).v \o "\n" \o Rendering(3).v

\* ------------------------------------------------------------------------
\* Properties of the blocks of the control-flow graph
\* ------------------------------------------------------------------------

\* the leader after block bi, or nothing for the last block
NextLeader(blocks, bi) ==
    IF bi < Len(blocks) THEN Some(blocks[bi + 1].start_pc) ELSE None

\* the instructions from the leader of block bi up to the next leader
LeaderSpan(instrs, blocks, bi) ==
    SelectSeq(instrs, LAMBDA ins :
        /\ ins.pc >= blocks[bi].start_pc
        /\ NextLeader(blocks, bi) # None => ins.pc < NextLeader(blocks, bi).some)

\* C21: every leader starts a block, in ascending order, and the block of
\* leader p holds exactly the instructions whose pc is at least p and below
\* the next leader, also when a branch target is not the pc of an
\* instruction; a block that is not empty begins at its start_pc.
C21_BlocksSpanLeaders ==
    last.op = "build_cfg"
    => /\ {funcs[bi].start_pc : bi \in 1..Len(funcs)} = Leaders(value.v)
       /\ \A bi \in 1..Len(funcs) :
             /\ bi < Len(funcs) => funcs[bi].start_pc < funcs[bi + 1].start_pc
             /\ funcs[bi].instrs = LeaderSpan(value.v, funcs, bi)
             /\ funcs[bi].instrs # <<>> => funcs[bi].instrs[1].pc = funcs[bi].start_pc

\* ------------------------------------------------------------------------
\* Properties of the structuring passes
\* ------------------------------------------------------------------------

\* the occurrences of the loop pattern in a list, as <<i, j>>: Label(L) at
\* i, CondGoto{if_false, E} at i + 1, Goto(L) at j, Label(E) at j + 1 and
\* no Goto(L) between them
WhileOccurrences(stmts) ==
    {o \in (1..Len(stmts)) \X (1..Len(stmts)) :
        /\ o[2] >= o[1] + 2
        /\ stmts[o[1]].k = "Label"
        /\ stmts[o[1] + 1].k = "CondGoto" /\ stmts[o[1] + 1].if_false
        /\ stmts[o[2]] = SGoto(stmts[o[1]].pc)
        /\ IsLabel(stmts, o[2] + 1) /\ stmts[o[2] + 1].pc = stmts[o[1] + 1].target
        /\ \A m \in (o[1] + 2)..(o[2] - 1) : stmts[m] # SGoto(stmts[o[1]].pc)}

\* the statements of a list that lie in none of the spans i..j+1, from i on
RECURSIVE OutsideSpans(_, _, _)
OutsideSpans(stmts, occs, i) ==
    IF i > Len(stmts) THEN <<>>
    ELSE (IF \E o \in occs : o[1] <= i /\ i <= o[2] + 1 THEN <<>> ELSE <<stmts[i]>>)
         \o OutsideSpans(stmts, occs, i + 1)

\* C22: try_structure_while replaces every occurrence of Label(L),
\* CondGoto{if_false, E}, body, Goto(L), Label(E) in a flat list by the one
\* statement While(cond, body), and leaves the statements outside the
\* occurrences as they were, in order.
C22_EveryLoopReplaced ==
    (last.op = "try_structure_while" /\ last.start = 0)
    => LET given == last.res.v
           occs == WhileOccurrences(given) IN
       /\ \A o \in occs :
             \E p \in 1..Len(value) :
                value[p] = SWhile(given[o[1] + 1].cond, SubSeq(given, o[1] + 2, o[2] - 1))
       /\ Cardinality({p \in 1..Len(value) : value[p].k = "While"}) = Cardinality(occs)
       /\ SelectSeq(value, LAMBDA s : s.k # "While") = OutsideSpans(given, occs, 1)

\* the occurrences of the branch pattern in a list, as <<i, j, k>>:
\* CondGoto{if_false, Else} at i, then-statements without labels and gotos,
\* Goto(End) at j, Label(Else) at j + 1, else-statements, and the first
\* Label(End) after them at k
IfElseOccurrences(stmts) ==
    {o \in (1..Len(stmts)) \X (1..Len(stmts)) \X (1..Len(stmts)) :
        /\ o[1] < o[2] /\ o[2] + 1 < o[3]
        /\ stmts[o[1]].k = "CondGoto" /\ stmts[o[1]].if_false
        /\ \A m \in (o[1] + 1)..(o[2] - 1) : stmts[m].k \notin {"Label", "Goto"}
        /\ stmts[o[2]].k = "Goto"
        /\ stmts[o[2] + 1] = SLabel(stmts[o[1]].target)
        /\ stmts[o[3]] = SLabel(stmts[o[2]].t)
        /\ \A m \in (o[2] + 2)..(o[3] - 1) : stmts[m] # SLabel(stmts[o[2]].t)}

\* the statements of a list that lie in none of the spans i..k, from n on
RECURSIVE OutsideBranches(_, _, _)
OutsideBranches(stmts, occs, n) ==
    IF n > Len(stmts) THEN <<>>
    ELSE (IF \E o \in occs : o[1] <= n /\ n <= o[3] THEN <<>> ELSE <<stmts[n]>>)
         \o OutsideBranches(stmts, occs, n + 1)

\* C23: try_structure_if_else replaces every occurrence of
\* CondGoto{if_false, Else}, then-statements, Goto(End), Label(Else),
\* else-statements, Label(End) by the one statement IfElse(cond, then, else)
\* holding those statements, and drops nothing else from the list.
C23_EveryBranchReplaced ==
    (last.op = "try_structure_if_else" /\ last.start = 0)
    => LET given == last.res.v
           occs == IfElseOccurrences(given) IN
       /\ \A o \in occs :
             \E p \in 1..Len(value) :
                value[p] = SIfElse(given[o[1]].cond,
                                   SubSeq(given, o[1] + 1, o[2] - 1),
                                   SubSeq(given, o[2] + 2, o[3] - 1))
       /\ SelectSeq(value, LAMBDA s : s.k # "IfElse") = OutsideBranches(given, occs, 1)

\* ------------------------------------------------------------------------
\* Properties of the one-line form
\* ------------------------------------------------------------------------

\* the statement list the text of the function of the state is made from
FinalList == final_stmts(last.res.v, options.optimize)

\* labels only, with distinct targets, up to position n
LabelsOnly(stmts, n) ==
    /\ \A i \in 1..n : stmts[i].k = "Label"
    /\ \A i \in 1..n : \A j \in 1..n : stmts[i].pc = stmts[j].pc => i = j

\* function name() { return v; } or function name() { return; }
OneLineText(name, ret) ==
    "function " \o name \o "() { return"
        \o (IF ret.v = None THEN "" ELSE " " \o ret.v.some) \o "; }\n"

\* C24: with optimize = true a function whose final statement list is any
\* number of labels followed by one trailing Return is emitted in the
\* one-line form, and a function whose final list holds labels only, or
\* nothing, is emitted as the empty text.
C24_OneLineForm ==
    (last.op = "function_text" /\ options.optimize)
    => /\ (/\ FinalList # <<>>
           /\ FinalList[Len(FinalList)].k = "Return"
           /\ LabelsOnly(FinalList, Len(FinalList) - 1))
          => result = Ok(OneLineText(display_func_name(options, BareFunction(buf), 0),
                                     FinalList[Len(FinalList)]))
       /\ LabelsOnly(FinalList, Len(FinalList)) => result = Ok("")

\* ------------------------------------------------------------------------
\* Specification of the enumeration of the functions of a value tree
\* ------------------------------------------------------------------------

MaxItems == 2

\* two functions that can be told apart, and a value that is no function
LeafValues == {Fn(AtomString("f"), <<>>, <<>>), Fn(AtomString("g"), <<>>, <<>>), VNull}

\* every kind of value that holds values, around the values of S
Containers(S, n) ==
    {VArray(xs) : xs \in SeqsUpTo(S, n)}
    \cup {VObject([i \in 1..Len(xs) |-> <<AtomString("p"), xs[i]>>]) : xs \in SeqsUpTo(S, n)}
    \cup {Fn(AtomString("h"), <<>>, xs) : xs \in SeqsUpTo(S, n)}
    \cup {VModule(AtomString("m"), x) : x \in S}
    \cup {VTypedArray(1, 0, 0, x) : x \in S}
    \cup {VDate(x) : x \in S}

\* trees three levels deep
MidValues == LeafValues \cup Containers(LeafValues, MaxItems)
ValueTrees == MidValues \cup Containers(MidValues, 2)

InitCollect ==
    /\ value \in Call("ValueTrees", <<>>)
    /\ phase = "collect"
    /\ src = [kind |-> "values", v |-> None]
    /\ options = NoOptions
    /\ version = "Legacy"
    /\ TablesIdle
    /\ buf = <<>>
    /\ pos = 0
    /\ funcs = <<>>
    /\ result = None
    /\ last = [op |-> "none", start |-> 0, res |-> None]

NextCollect == CollectFunctions

SpecCollect == InitCollect /\ [][NextCollect]_vars

\* ------------------------------------------------------------------------
\* Properties of the enumeration
\* ------------------------------------------------------------------------

\* the values a value holds, in order
Children(v) ==
    CASE v.k = "Function" -> v.bc.cpool
      [] v.k = "Array" -> v.items
      [] v.k = "Object" -> [i \in 1..Len(v.props) |-> v.props[i][2]]
      [] v.k = "Module" -> <<v.func_obj>>
      [] v.k = "TypedArray" -> <<v.buffer>>
      [] v.k = "Date" -> <<v.value>>
      [] OTHER -> <<>>

\* the nodes of a tree, each as the list of child positions leading to it
RECURSIVE Paths(_)
Paths(v) ==
    {<<>>} \cup UNION {{<<i>> \o p : p \in Paths(Children(v)[i])} : i \in 1..Len(Children(v))}

RECURSIVE NodeAt(_, _)
NodeAt(v, p) == IF p = <<>> THEN v ELSE NodeAt(Children(v)[Head(p)], Tail(p))

FunctionPaths(v) == {p \in Paths(v) : NodeAt(v, p).k = "Function"}

\* p is visited before q in depth-first pre-order
RECURSIVE PathBefore(_, _)
PathBefore(p, q) ==
    IF p = <<>> THEN q # <<>>
    ELSE IF q = <<>> THEN FALSE
    ELSE IF Head(p) # Head(q) THEN Head(p) < Head(q)
    ELSE PathBefore(Tail(p), Tail(q))

\* C25: collect_functions_entry_first returns every function of the tree
\* (through constant pools, arrays, object property values, module function
\* objects, typed-array buffers and date values) exactly once, in
\* depth-first pre-order, and the function of a top-level Module is at
\* position 0 with the order of the others unchanged.
C25_PreOrderEntryFirst ==
    (src.kind = "values" /\ last.op = "collect_functions")
    => LET fp == FunctionPaths(value) IN
       /\ Len(funcs) = Cardinality(fp)
       /\ \A p \in fp :
             funcs[1 + Cardinality({q \in fp : PathBefore(q, p)})] = NodeAt(value, p).bc
       /\ (value.k = "Module" /\ value.func_obj.k = "Function")
             => funcs[1] = value.func_obj.bc

\* a module whose function has a constant pool with a function in it, and
\* both are returned, the module's function first
C25_Witness ==
    /\ src.kind = "values" /\ last.op = "collect_functions"
    /\ value.k = "Module" /\ value.func_obj.k = "Function"
    /\ \E i \in 1..Len(value.func_obj.bc.cpool) : value.func_obj.bc.cpool[i].k = "Function"
    /\ Len(funcs) >= 2
    /\ funcs[1] = value.func_obj.bc

\* ------------------------------------------------------------------------
\* Specification of the names the pseudo emitter takes from atoms: one
\* legacy function that reads an argument, a closure variable or a global
\* variable, or writes a global variable, under every raw name
\* ------------------------------------------------------------------------

\* names that are identifiers and names that are not
RawNames == {"ok", "$_z9", "a-b", "1x", "x y", "-", ""}

NameUses == {"arg", "var_ref", "get_var", "put_var"}

\* the index of the first atom after the predefined ones
FirstUserAtom == Len(LEGACY_V1_ATOMS) + 1

\* <read the name>; return   and   true; put_var <name>; return_undef
NameProgram(use) ==
    CASE use = "arg" -> <<OpcodeOf("get_arg"), 0, 0, OpcodeOf("return")>>
      [] use = "var_ref" -> <<OpcodeOf("get_var_ref"), 0, 0, OpcodeOf("return")>>
      [] use = "get_var" -> AtomInstr("get_var", FirstUserAtom) \o <<OpcodeOf("return")>>
      [] use = "put_var" ->
            <<OpcodeOf("push_true")>> \o AtomInstr("put_var", FirstUserAtom)
                \o <<OpcodeOf("return_undef")>>

\* the function: the name is its first local, its first closure variable,
\* or the first user atom of the table
NameFunction(use, raw) ==
    [BareFunction(NameProgram(use)) EXCEPT
        !.locals = IF use = "arg" THEN <<VarDef(AtomString(raw), 0, 0, 0, 0)>> ELSE <<>>,
        !.arg_count = IF use = "arg" THEN 1 ELSE 0,
        !.closure_vars = IF use = "var_ref" THEN <<ClosureVar(AtomString(raw), 0, 0)>> ELSE <<>>,
        !.closure_var_count = IF use = "var_ref" THEN 1 ELSE 0]

InitNames ==
    /\ \E use \in NameUses, raw \in RawNames :
          /\ funcs = <<Call("NameFunction", <<use, raw>>)>>
          /\ src = [kind |-> "names", v |-> [use |-> use, raw |-> raw]]
          /\ tblV1 = [atoms |-> LEGACY_V1_ATOMS \o <<raw>>]
    /\ tbl = to_atom_table(tblV1)
    /\ options \in {o \in AllOptions : o.version = "Legacy" /\ o.mode = "Pseudo"}
    /\ version = "Legacy"
    /\ phase = "emit"
    /\ buf = <<>>
    /\ pos = 0
    /\ value = None
    /\ result = None
    /\ last = [op |-> "none", start |-> 0, res |-> None]

NextNames == DecompileFunctions

SpecNames == InitNames /\ [][NextNames]_vars

\* ------------------------------------------------------------------------
\* Properties of the names
\* ------------------------------------------------------------------------

\* a character an identifier may hold at position i
IdentChar(ch, i) ==
    ch = "_" \/ ch = "$" \/ IsAsciiAlphabetic(ch) \/ (i > 1 /\ IsDigit(ch))

\* name is the sanitized form of raw
SanitizedFrom(raw, name) ==
    /\ name # ""
    /\ \A i \in 1..Len(name) : IdentChar(CharAt(name, i), i)
    /\ raw = "" => name = "_"
    /\ raw # "" =>
          /\ Len(name) = Len(raw)
          /\ \A i \in 1..Len(raw) :
                CharAt(name, i) = IF IdentChar(CharAt(raw, i), i) THEN CharAt(raw, i) ELSE "_"

\* the text names the variable `name`
Names(name) ==
    IF src.v.use = "put_var" THEN Contains(result.v, " " \o name \o " = true;")
    ELSE Contains(result.v, "return " \o name \o ";")

\* the names a raw name of up to three characters can turn into
IdentTexts ==
    {"_"} \cup {a \o b \o c : a \in {"_", "$", "o", "a", "x", "1"},
                              b \in {"", "_", "k", "x", "b"}, c \in {"", "9", "y", "z", "b"}}
          \cup {"$_z9"}

\* C26: every identifier the pseudo emitter makes from an atom -- the name
\* of an argument, of a closure variable, of a global variable read or
\* written -- is sanitized: not empty, a letter, `_` or `$` first, letters,
\* digits, `_` or `$` after it, every other character of the atom's text
\* replaced by `_`, and `_` for an empty text.
C26_NamesSanitized ==
    (src.kind = "names" /\ last.op = "decompile_functions_with")
    => /\ result.ok
       /\ \E name \in IdentTexts : SanitizedFrom(src.v.raw, name) /\ Names(name)

\* ------------------------------------------------------------------------
\* Properties of conditional branches in the statement list
\* ------------------------------------------------------------------------

CondBranches == {"if_false", "if_true", "if_false8", "if_true8"}

\* every conditional branch of the list has a target
BranchesHaveTargets(instrs) ==
    \A i \in 1..Len(instrs) :
       instrs[i].name \in CondBranches => label_target(instrs[i]) # None

\* every CondGoto of the list is last or has one of `kinds` right after it
CondGotoThen(stmts, kinds) ==
    \A i \in 1..Len(stmts) :
       (stmts[i].k = "CondGoto" /\ i < Len(stmts)) => stmts[i + 1].k \in kinds

\* C27: when every conditional branch of a function has a target, every
\* CondGoto of the flat statement list is last or followed by a Label, and
\* after try_structure_while by a Label or a While; so try_structure_if_else
\* returns its input and the final list of the function holds no IfElse.
C27_NoIfElseEver ==
    (last.op = "function_text" /\ BranchesHaveTargets(value.v))
    => LET flat == last.res.v
           looped == try_structure_while(flat) IN
       /\ CondGotoThen(flat, {"Label"})
       /\ CondGotoThen(looped, {"Label", "While"})
       /\ try_structure_if_else(looped) = looped
       /\ \A i \in 1..Len(FinalList) : FinalList[i].k # "IfElse"

\* ------------------------------------------------------------------------
\* Properties of the passes over labels, gotos and statements
\* ------------------------------------------------------------------------

\* the targets of the Goto and CondGoto statements of a list, at any depth
RECURSIVE GotoTargets(_)
GotoTargets(stmts) ==
    UNION {CASE stmts[i].k = "Goto" -> {stmts[i].t}
             [] stmts[i].k = "CondGoto" -> {stmts[i].target}
             [] stmts[i].k = "While" -> GotoTargets(stmts[i].body)
             [] stmts[i].k = "IfElse" ->
                   GotoTargets(stmts[i].then_stmts) \cup GotoTargets(stmts[i].else_stmts)
             [] OTHER -> {} : i \in 1..Len(stmts)}

\* the targets of the Label statements of a list, at any depth
RECURSIVE LabelTargets(_)
LabelTargets(stmts) ==
    UNION {CASE stmts[i].k = "Label" -> {stmts[i].pc}
             [] stmts[i].k = "While" -> LabelTargets(stmts[i].body)
             [] stmts[i].k = "IfElse" ->
                   LabelTargets(stmts[i].then_stmts) \cup LabelTargets(stmts[i].else_stmts)
             [] OTHER -> {} : i \in 1..Len(stmts)}

\* every goto of the list has its label in the list
LabelsIntact(stmts) == GotoTargets(stmts) \subseteq LabelTargets(stmts)

\* C28: when every Goto and CondGoto of a flat list has a Label with its
\* target, then after try_structure_while and try_structure_if_else, and
\* after optimize_stmts when it runs, every Goto and CondGoto left in the
\* result, at any depth, still has a Label with its target in the result.
C28_LabelsIntact ==
    (/\ src.kind = "flat"
     /\ LabelsIntact(src.v.v)
     /\ \/ last.op = "try_structure_if_else" /\ last.start = 0
        \/ last.op = "optimize_stmts")
    => LabelsIntact(value)

\* the Expr, Assign and Return statements of a list in order, those of the
\* bodies of While and of the branches of IfElse in their place
RECURSIVE PlainStmts(_)
PlainStmts(stmts) ==
    IF stmts = <<>> THEN <<>>
    ELSE LET st == Head(stmts) IN
         (CASE st.k \in {"Expr", "Assign", "Return"} -> <<st>>
            [] st.k = "While" -> PlainStmts(st.body)
            [] st.k = "IfElse" -> PlainStmts(st.then_stmts) \o PlainStmts(st.else_stmts)
            [] OTHER -> <<>>)
         \o PlainStmts(Tail(stmts))

\* C29: try_structure_while, try_structure_if_else and optimize_stmts each
\* keep every Expr, Assign and Return statement: the result, flattened
\* through While bodies and IfElse branches, holds the same such statements
\* in the same order as the list the pass was given.
C29_StatementsKept ==
    (src.kind = "flat"
     /\ last.op \in {"try_structure_while", "try_structure_if_else", "optimize_stmts"})
    => PlainStmts(value) = PlainStmts(last.res.v)

\* each pass has rewritten a list that holds statements: a loop with a
\* body, a branch with both parts, a goto folded into its return
C29_Witness ==
    /\ src.kind = "flat"
    /\ last.op \in {"try_structure_while", "try_structure_if_else", "optimize_stmts"}
    /\ value # last.res.v
    /\ PlainStmts(value) # <<>>
    /\ \/ /\ last.op = "try_structure_while"
          /\ \E i \in 1..Len(value) : value[i].k = "While" /\ Len(value[i].body) = 2
       \/ /\ last.op = "try_structure_if_else"
          /\ \E i \in 1..Len(value) :
                value[i].k = "IfElse" /\ value[i].then_stmts # <<>> /\ value[i].else_stmts # <<>>
       \/ /\ last.op = "optimize_stmts"
          /\ Len(value) < Len(last.res.v)

\* ------------------------------------------------------------------------
\* Properties of the names of closures
\* ------------------------------------------------------------------------

\* the top-level function of the tree pushes the closure of entry k of its
\* constant pool, a function without a name
RefersTo(k) ==
    /\ value.bc.bytecode = ClosureCode(k)
    /\ k < Len(value.bc.cpool)
    /\ value.bc.cpool[k + 1].k = "Function"
    /\ value.bc.cpool[k + 1].bc.func_name = AtomNull

\* C30: with deobfuscate, the name a function's fclosure / fclosure8 k
\* pushes for the Null-named function at entry k of its constant pool is
\* the name in the header of that function in the same output.
C30_ClosureNamesAgree ==
    (Joined /\ options.deobfuscate /\ options.mode = "Pseudo")
    => \A k \in 0..(MaxNested - 1) :
          RefersTo(k)
          => \E name \in {"closure_" \o ToString(n) : n \in 0..(MaxNested + 1)} :
                /\ Contains(Rendering(1).v, "return " \o name \o ";")
                /\ funcs[k + 2] = value.bc.cpool[k + 1].bc
                /\ Headed(k + 2, name)

\* ------------------------------------------------------------------------
\* The call table: Call("f", <<x, y>>) is f(x, y). The functions that many
\* others build on are reached through it, by name.
\* ------------------------------------------------------------------------

Call(f, a) ==
    CASE f = "get_u8" -> get_u8(a[1], a[2])
      [] f = "ToNat" -> ToNat(a[1])
      [] f = "get_leb128_u32" -> get_leb128_u32(a[1], a[2])
      [] f = "get_u16" -> get_u16(a[1], a[2])
      [] f = "sleb128_loop" -> sleb128_loop(a[1], a[2], a[3], a[4])
      [] f = "resolve_idx" -> resolve_idx(a[1], a[2])
      [] f = "read_atom" -> read_atom(a[1], a[2], a[3])
      [] f = "read_atom_id" -> read_atom_id(a[1], a[2], a[3])
      [] f = "read_lebs" -> read_lebs(a[1], a[2], a[3], a[4])
      [] f = "read_qjs_string" -> read_qjs_string(a[1], a[2])
      [] f = "opcode_info_v1" -> opcode_info_v1(a[1])
      [] f = "opcode_info" -> opcode_info(a[1])
      [] f = "decode_step" -> decode_step(a[1], a[2], a[3], a[4])
      [] f = "label_target" -> label_target(a[1])
      [] f = "Popped" -> Popped(a[1])
      [] f = "NameIndex" -> NameIndex(a[1], a[2])
      [] f = "AtomToString" -> AtomToString(a[1])
      [] f = "ParseUnsigned" -> ParseUnsigned(a[1], a[2])
      [] f = "var_ref_name" -> var_ref_name(a[1], a[2])
      [] f = "emit_instr" -> emit_instr(a[1], a[2], a[3], a[4], a[5])
      [] f = "arms_access" -> arms_access(a[1], a[2], a[3])
      [] f = "arms_call_store" -> arms_call_store(a[1], a[2], a[3])
      [] f = "arms_define" -> arms_define(a[1], a[2], a[3], a[4])
      [] f = "build_cfg" -> build_cfg(a[1])
      [] f = "decode_with" -> decode_with(a[1], a[2])
      [] f = "emit_blocks" -> emit_blocks(a[1], a[2], a[3], a[4], a[5], a[6])
      [] f = "final_stmts" -> final_stmts(a[1], a[2])
      [] f = "function_output" -> function_output(a[1], a[2], a[3], a[4], a[5])
      [] f = "module_tables" -> module_tables(a[1], a[2], a[3], a[4])
      [] f = "read_atom_table" -> read_atom_table(a[1], a[2])
      [] f = "read_atom_table_v1" -> read_atom_table_v1(a[1], a[2])
      [] f = "read_closure_vars_v1" -> read_closure_vars_v1(a[1], a[2], a[3], a[4], a[5])
      [] f = "read_locals" -> read_locals(a[1], a[2], a[3], a[4], a[5])
      [] f = "read_locals_v1" -> read_locals_v1(a[1], a[2], a[3], a[4], a[5])
      [] f = "read_value" -> read_value(a[1], a[2], a[3])
      [] f = "read_value_v1" -> read_value_v1(a[1], a[2], a[3])
      [] f = "skip_atoms" -> skip_atoms(a[1], a[2], a[3], a[4], a[5])
      [] f = "skip_exports" -> skip_exports(a[1], a[2], a[3], a[4], a[5])
      [] f = "emit_block" -> emit_block(a[1], a[2], a[3], a[4], a[5], a[6])
      [] f = "function_text" -> function_text(a[1], a[2], a[3])
      [] f = "display_func_name" -> display_func_name(a[1], a[2], a[3])
      [] f = "FunctionInputs" -> FunctionInputs
      [] f = "try_structure_while" -> try_structure_while(a[1])
      [] f = "try_structure_if_else" -> try_structure_if_else(a[1])
      [] f = "FlatLists" -> FlatLists
      [] f = "FunctionTrees" -> FunctionTrees
      [] f = "ValueTrees" -> ValueTrees
      [] f = "optimize_stmts" -> optimize_stmts(a[1])
      [] f = "NameFunction" -> NameFunction(a[1], a[2])

====
